---- MODULE Spec2Model ----
(***************************************************************************)
(* Model of go-pcap's per-flow TCP dispatch (pcap/pcap_stream.go) and of   *)
(* the parser-factory selector (gnet), of the recognizers of the parser    *)
(* factories (gnet/http, http2, tls, ctp, ftp), of the dispatch goroutine  *)
(* (pcap/pcap.go), of the capture goroutines (pcap/reader.go) and of the   *)
(* buffer pool (mempool), of the views and their reader (memview), of the  *)
(* HTTP/2 preface and HTTP request recognizers on views, of Tee, of the    *)
(* goroutine of the HTTP parser and of the TLS handshake parsers, of the   *)
(* recognizers of TLS handshakes and FTP responses on bytes, of the length *)
(* fields and the growth of a view under its reader, of the pipe between   *)
(* Parse and the HTTP reader, of the slabs of a pool shared by several     *)
(* buffers, and of tcpStream.  Each component has a specification of its   *)
(* own (Spec, SelSpec, AccSpec, DispSpec, CapSpec, PoolSpec, WriteSpec,    *)
(* MemSpec, IdxSpec, ReaderSpec, H2Spec, ReqSpec, TeeSpec, HttpSpec,       *)
(* TlsSpec, TlsfSpec, CtpSpec, FieldSpec, GrowSpec, PipeSpec, SlabSpec,    *)
(* StreamSpec) in which the variables of the others keep their idle        *)
(* values.                                                                 *)
(*                                                                         *)
(* A flow receives reassembled byte ranges from the gopacket reassembler.  *)
(* Bytes are modelled by their position in the flow's byte stream          *)
(* (1, 2, 3, ...), so that every byte is distinguishable and emission      *)
(* order and coverage can be compared with the delivered stream.           *)
(***************************************************************************)
EXTENDS Integers, Sequences, FiniteSets, TLC

\* ---------------------------------------------------------------- bounds
\* Total number of bytes the reassembler delivers to the flow.
MaxBytes == 3
\* Largest number of new bytes in one delivery.
MaxChunk == 2
\* Number of factories in the flow's selector.
NumFactories == 2
\* Longest factory list tried on the selector alone.
MaxSelFactories == 3
\* Longest input tried on the selector alone.
MaxSelInput == 2

\* The acknowledgement number of the packet whose first byte is at position
\* seq of the flow's stream is AckBase + seq: every packet has its own, and
\* none equals a sequence number of the flow.
AckBase == 50

Decisions == {"Accept", "NeedMoreData", "Reject"}

Min(a, b) == IF a < b THEN a ELSE b
Max(a, b) == IF a > b THEN a ELSE b

\* The byte positions lo..hi as a sequence.
Range(lo, hi) == [i \in 1..(hi - lo + 1) |-> lo + i - 1]

\* memview.MemView.SubView(start, end): bytes [start, end), 0-based.
SubView(mv, start, end) ==
    IF start >= end \/ start >= Len(mv) \/ end > Len(mv) THEN <<>>
    ELSE SubSeq(mv, start + 1, end)

VARIABLES
    \* --- gopacket reassembler, as seen by one flow
    phase,            \* "open", "reenter", "ended", "done"
    delivered,        \* number of stream bytes handed to the flow so far
    kept,             \* bytes retained by sg.KeepFrom for the next delivery
    pktCtx,           \* pktCtx[p]: assembler context of the packet carrying byte p
    sgBytes,          \* contents of the ScatterGather being handled (re-entry)
    ignoreCount,      \* ignoreCount argument of the pending re-entry
    \* --- tcpFlow
    currentParser,    \* active parser, NilParser if none
    currentParserCtx, \* context of the first byte of currentParser
    parserFed,        \* bytes the active parser has been fed (parser state)
    unusedAcceptBuf,  \* data left unused while determining the parser
    outChan,          \* records sent on outChan, in order
    \* --- what the last handler invocation did (history)
    last,
    \* --- selector exercised alone (gnet.TCPParserFactorySelector)
    selFacts, selInputLen, selResult,
    \* --- one recognizer factory asked alone (TCPParserFactory.Accepts)
    accFact,          \* the factory asked
    accInput,         \* what the factory's tests see of the input
    accIsEnd,         \* the isEnd argument
    accResult,        \* (decision, discardFront) returned, NoAnswer before
    \* --- dispatch task of TrafficParser.Parse with its two channels
    dispPc,           \* "select"; waiting at a send of "handle", "flushTick"
                      \* or "flushAll"; "done"; "crashed" (by a panic)
    dispPackets,      \* packets in the upstream packet channel
    dispSent,         \* number of packets the capture task sends
    dispUpClosed,     \* the capture task has closed the packet channel
    dispFlows,        \* dispFlows[i]: shape of flow i of the assembler
    dispPending,      \* records the running handler has still to send
    dispOut,          \* number of records in the emission channel p.outchan
    dispOutClosed,    \* p.outchan is closed
    dispLog,          \* every record sent on p.outchan so far (history)
    dispHist,         \* dispHist[i]: last completion of flow i (history)
    dispHandled,      \* how each packet taken was handled, in order (history)
    \* --- capture task of FileReader.Capture / DeviceReader.Capture
    capKind,          \* "file" or "device"
    capPc,            \* "range"/"select"/"send": position in the loop;
                      \* "closing": close(out) done; "done": handle closed
    capSource,        \* packets the capture file still holds
    capOut,           \* number of packets in the channel out
    capOutClosed,     \* out is closed
    capHandleOpen,    \* the pcap handle is open
    capCtxDone,       \* ctx is cancelled
    capConsumerOn,    \* the consumer of out is still receiving
    \* --- mempool: one pool and the buffers made from it
    memArgs,          \* arguments of MakeBufferPool
    memPool,          \* the bufferPool, NoPool before it is made
    memBufs,          \* memBufs[b]: buffer b, NoBuffer before NewBuffer
    memNext,          \* number of payload bytes handed to the buffers so far
    memExpected,      \* memExpected[b]: the bytes passed to b's writes up to
                      \* the first ErrEmptyPool, and how many preceded it
    memFailed,        \* memFailed[b]: a write of b returned ErrEmptyPool
    memLast,          \* the last call on a buffer and what it returned
    \* --- goroutines calling getChunk and release of one pool (memPool)
    poolCallers,      \* poolCallers[c]: position and chunks of caller c
    poolForeign,      \* chunks released so far that the pool never issued
    \* --- memview: one MemView and one call of Index on it
    mvBuf,            \* the view's slabs (MemView.buf)
    mvStart,          \* argument start of Index
    mvSep,            \* argument sep of Index
    mvResult,         \* what Index returned, NoResult before the call
    \* --- memview: one MemViewReader of the view mvBuf
    rIndex,           \* index of the slab to read next (MemViewReader.rIndex)
    rOffset,          \* offset into that slab for the next read
    gOffset,          \* offset into the whole view for the next read
    rdLast,           \* the last call on the reader and what it returned
    \* --- http2: one call of Accepts on the view mvBuf, and the parser made after it
    h2IsEnd,          \* argument isEnd of Accepts
    h2Answer,         \* what Accepts returned, NoResult before the call
    h2Sink,           \* the http2Sink, NoSink before CreateParser
    h2Last,           \* what the last Parse of the sink returned
    h2Calls,          \* number of Parse calls so far
    \* --- http: one call of the request factory's Accepts on the view mvBuf
    reqIsEnd,         \* argument isEnd of Accepts
    reqAnswer,        \* what Accepts returned, NoResult before the call
    \* --- gnet: one Tee with the goroutine it starts, its input and its two outputs
    teePc,            \* position of the goroutine of Tee
    teeItem,          \* the item t the goroutine holds
    teeSent,          \* the items received on in so far
    teeInClosed,      \* in has been closed
    teeOut,           \* teeOut[k]: items received from out k, and whether it is closed
    \* --- http: the goroutines of newHTTPParser over one buffer pool
    htPool,           \* the pool the factories were made with
    htParsers,        \* htParsers[p]: position, body buffer and outcome of parser p
    \* --- tls: a handshake parser fed the bytes of one stream
    tlsKind,          \* which parser: client hello, server hello, certificate
    tlsHi,            \* byte 3 of the stream, the high byte of the record length
    tlsLo,            \* byte 4 of the stream, the low byte of the record length
    tlsBodyOk,        \* whether the bytes of the handshake body are well formed
    tlsLen,           \* parser.allInput.Len()
    tlsLast,          \* what the last Parse returned
    tlsCalls,         \* the number of Parse calls
    \* --- tls: a recognizer asked about the bytes of an input
    tfKind,           \* which recognizer
    tfInput,          \* the bytes of the input
    tfIsEnd,          \* isEnd of the call
    tfAnswer,         \* what Accepts returned
    \* --- httpParser: Parse and the reader goroutine over the io.Pipe
    ppW,              \* where the caller of Parse is
    ppR,              \* where the reader goroutine is
    ppSlabs,          \* the writes io.Copy still has to make, the one under way first
    ppIsEnd,          \* the isEnd argument of the call
    ppTotal,          \* p.totalBytesConsumed
    ppCalls,          \* calls of Parse made
    ppDone,           \* the error the read side was closed with, "open" before
    ppWClosed,        \* p.w.Close() was called
    ppReadClosed,     \* the errors in the channel readClosed
    ppLast,           \* how the last call of Parse returned
    \* --- mempool: the slabs of one pool and the buffers sharing it
    slPool,           \* the pool: the slabs in its channel, its capacity, the chunk size
    slBufs,           \* slBufs[b]: the slabs buffer b holds, and its offsets
    slLast,           \* the slabs getChunk took and handed out in the last call
    \* --- tcpStream: one connection of the assembler's pool
    stStream,         \* the tcpStream: bidiID, netFlow, flows
    stMade,           \* number of tcpFlow objects made by newTCPFlow
    stOut,            \* what was sent on outChan
    stLast,           \* the last call of the assembler on the stream
    stCalls,          \* number of calls of the assembler on the stream
    stIgnored,        \* number of deliveries that found no flows
    stDone            \* ReassemblyComplete has returned

vars == <<phase, delivered, kept, pktCtx, sgBytes, ignoreCount,
          currentParser, currentParserCtx, parserFed, unusedAcceptBuf,
          outChan, last, selFacts, selInputLen, selResult,
          accFact, accInput, accIsEnd, accResult,
          dispPc, dispPackets, dispSent, dispUpClosed, dispFlows,
          dispPending, dispOut, dispOutClosed, dispLog, dispHist,
          dispHandled,
          capKind, capPc, capSource, capOut, capOutClosed, capHandleOpen,
          capCtxDone, capConsumerOn,
          memArgs, memPool, memBufs, memNext, memExpected, memFailed,
          memLast, poolCallers, poolForeign,
          mvBuf, mvStart, mvSep, mvResult,
          rIndex, rOffset, gOffset, rdLast,
          h2IsEnd, h2Answer, h2Sink, h2Last, h2Calls,
          reqIsEnd, reqAnswer,
          teePc, teeItem, teeSent, teeInClosed, teeOut,
          htPool, htParsers,
          tlsKind, tlsHi, tlsLo, tlsBodyOk, tlsLen, tlsLast, tlsCalls,
          tfKind, tfInput, tfIsEnd, tfAnswer,
          ppW, ppR, ppSlabs, ppIsEnd, ppTotal, ppCalls, ppDone, ppWClosed, ppReadClosed, ppLast,
          slPool, slBufs, slLast,
          stStream, stMade, stOut, stLast, stCalls, stIgnored, stDone>>

flowVars == <<phase, delivered, kept, pktCtx, sgBytes, ignoreCount,
              currentParser, currentParserCtx, parserFed, unusedAcceptBuf,
              outChan, last>>

selVars == <<selFacts, selInputLen, selResult>>

accVars == <<accFact, accInput, accIsEnd, accResult>>

dispVars == <<dispPc, dispPackets, dispSent, dispUpClosed, dispFlows,
              dispPending, dispOut, dispOutClosed, dispLog,
              dispHist, dispHandled>>

capVars == <<capKind, capPc, capSource, capOut, capOutClosed,
             capHandleOpen, capCtxDone, capConsumerOn>>

bufVars == <<memBufs, memNext, memExpected, memFailed, memLast>>

callerVars == <<poolCallers, poolForeign>>

memVars == <<memArgs, memPool, bufVars, callerVars>>

viewVars == <<mvBuf, mvStart, mvSep, mvResult>>

readerVars == <<rIndex, rOffset, gOffset, rdLast>>

h2Vars == <<h2IsEnd, h2Answer, h2Sink, h2Last, h2Calls>>

reqVars == <<reqIsEnd, reqAnswer>>

teeVars == <<teePc, teeItem, teeSent, teeInClosed, teeOut>>

httpVars == <<htPool, htParsers>>

tlsVars == <<tlsKind, tlsHi, tlsLo, tlsBodyOk, tlsLen, tlsLast, tlsCalls>>

tlsfVars == <<tfKind, tfInput, tfIsEnd, tfAnswer>>

pipeVars == <<ppW, ppR, ppSlabs, ppIsEnd, ppTotal, ppCalls, ppDone, ppWClosed, ppReadClosed, ppLast>>

slabVars == <<slPool, slBufs, slLast>>

streamVars == <<stStream, stMade, stOut, stLast, stCalls, stIgnored, stDone>>

\* The components modelled after the buffer pool.
extVars == <<viewVars, readerVars, h2Vars, reqVars, teeVars, httpVars, tlsVars, tlsfVars, pipeVars, slabVars, streamVars>>

\* The components that are exercised on their own.
restVars == <<accVars, dispVars, capVars, memVars, extVars>>

NoAnswer == [decision |-> "-", discardFront |-> 0]
NoHit == [start |-> -1, line |-> "-"]
NoInput == [len |-> 0, hits |-> <<>>, match |-> FALSE, partial |-> -1]

AccIdle ==
    /\ accFact = "-"
    /\ accInput = NoInput
    /\ accIsEnd = FALSE
    /\ accResult = NoAnswer

\* The two tcpFlows (one per direction) of the tcpStream the assembler of
\* the dispatch task tracks.
NumDispFlows == 2

NoCompletion == [shape |-> "-", isEnd |-> FALSE]

DispInit ==
    /\ dispPc = "select"
    /\ dispPackets = <<>>
    /\ dispSent = 0
    /\ dispUpClosed = FALSE
    /\ dispFlows = [i \in 1..NumDispFlows |-> "absent"]
    /\ dispPending = <<>>
    /\ dispOut = 0
    /\ dispOutClosed = FALSE
    /\ dispLog = {}
    /\ dispHist = [i \in 1..NumDispFlows |-> NoCompletion]
    /\ dispHandled = <<>>

CapIdle ==
    /\ capKind = "-"
    /\ capPc = "done"
    /\ capSource = 0
    /\ capOut = 0
    /\ capOutClosed = FALSE
    /\ capHandleOpen = FALSE
    /\ capCtxDone = FALSE
    /\ capConsumerOn = FALSE

\* Number of buffers made from the pool.
NumBuffers == 2

NoPool == [made |-> FALSE]
NoBuffer == [made |-> FALSE]
NoOp == [op |-> "-"]

\* Number of goroutines that call getChunk and release.
NumCallers == 2

\* A caller outside getChunk and release, holding no chunk.
IdleCaller == [pc |-> "idle", hand |-> 0, todo |-> 0, result |-> "-",
               dropped |-> 0]

BufIdle ==
    /\ memBufs = [b \in 1..NumBuffers |-> NoBuffer]
    /\ memNext = 0
    /\ memExpected = [b \in 1..NumBuffers |-> [passed |-> <<>>, cut |-> 0]]
    /\ memFailed = [b \in 1..NumBuffers |-> FALSE]
    /\ memLast = NoOp

CallersIdle ==
    /\ poolCallers = [c \in 1..NumCallers |-> IdleCaller]
    /\ poolForeign = 0

MemIdle ==
    /\ memArgs = [maxPoolSize_bytes |-> 0, chunkSize_bytes |-> 0]
    /\ memPool = NoPool
    /\ BufIdle
    /\ CallersIdle

NoResult == [done |-> FALSE]

ViewIdle ==
    /\ mvBuf = <<>>
    /\ mvStart = 0
    /\ mvSep = <<>>
    /\ mvResult = NoResult

ReaderIdle ==
    /\ rIndex = 0
    /\ rOffset = 0
    /\ gOffset = 0
    /\ rdLast = [op |-> "none"]

NoSink == [made |-> FALSE]

H2Idle ==
    /\ h2IsEnd = FALSE
    /\ h2Answer = NoResult
    /\ h2Sink = NoSink
    /\ h2Last = NoResult
    /\ h2Calls = 0

ReqIdle ==
    /\ reqIsEnd = FALSE
    /\ reqAnswer = NoResult

TeeIdle ==
    /\ teePc = "recv"
    /\ teeItem = 0
    /\ teeSent = <<>>
    /\ teeInClosed = FALSE
    /\ teeOut = [k \in 1..2 |-> [got |-> <<>>, closed |-> FALSE]]

HttpIdle ==
    /\ htPool = NoPool
    /\ htParsers = <<>>

TlsIdle ==
    /\ tlsKind = "client"
    /\ tlsHi = 0
    /\ tlsLo = 0
    /\ tlsBodyOk = FALSE
    /\ tlsLen = 0
    /\ tlsLast = NoResult
    /\ tlsCalls = 0

TlsfIdle ==
    /\ tfKind = "client"
    /\ tfInput = <<>>
    /\ tfIsEnd = FALSE
    /\ tfAnswer = NoResult

PipeIdle ==
    /\ ppW = "idle"
    /\ ppR = "none"
    /\ ppSlabs = <<>>
    /\ ppIsEnd = FALSE
    /\ ppTotal = 0
    /\ ppCalls = 0
    /\ ppDone = "open"
    /\ ppWClosed = FALSE
    /\ ppReadClosed = <<>>
    /\ ppLast = [outcome |-> "-"]

SlabIdle ==
    /\ slPool = [chunks |-> <<>>, cap |-> 0, chunkSize_bytes |-> 0]
    /\ slBufs = <<>>
    /\ slLast = [taken |-> <<>>, handed |-> <<>>]

StreamIdle ==
    /\ stStream = [bidiID |-> 0, netFlow |-> <<>>, flows |-> {}]
    /\ stMade = 0
    /\ stOut = <<>>
    /\ stLast = [op |-> "none", dir |-> "none", had |-> FALSE, start |-> FALSE, ret |-> FALSE]
    /\ stCalls = 0
    /\ stIgnored = 0
    /\ stDone = FALSE

ExtIdle == ViewIdle /\ ReaderIdle /\ H2Idle /\ ReqIdle /\ TeeIdle /\ HttpIdle /\ TlsIdle /\ TlsfIdle /\ PipeIdle /\ SlabIdle /\ StreamIdle

RestIdle == AccIdle /\ DispInit /\ CapIdle /\ MemIdle /\ ExtIdle

NilParser == [fact |-> 0, seq |-> 0, ack |-> 0]
NilCtx == [seq |-> 0, ack |-> 0]

\* ------------------------------------------------------------- selector

\* testFactory.Accepts: a factory answers with its decision and discard-front.
Accepts(f) == [decision |-> f.decision, discardFront |-> f.discardFront]

RECURSIVE SelectFrom(_, _, _, _, _)
SelectFrom(facts, i, need, minDF, inputLen) ==
    IF i > Len(facts)
    THEN IF need
         THEN [fact |-> 0, decision |-> "NeedMoreData",
               discardFront |-> minDF, asked |-> Len(facts)]
         ELSE [fact |-> 0, decision |-> "Reject",
               discardFront |-> inputLen, asked |-> Len(facts)]
    ELSE LET a == Accepts(facts[i]) IN
         IF a.decision = "Accept"
         THEN [fact |-> i, decision |-> "Accept",
               discardFront |-> a.discardFront, asked |-> i]
         ELSE IF a.decision = "NeedMoreData"
         THEN SelectFrom(facts, i + 1, TRUE,
                         IF need THEN Min(minDF, a.discardFront)
                                 ELSE a.discardFront, inputLen)
         ELSE SelectFrom(facts, i + 1, need, minDF, inputLen)

\* Select, were it to keep asking after an Accept and return the last
\* accepting factory.
Select_LastAccept(facts, inputLen) ==
    LET acc == {i \in 1..Len(facts) : Accepts(facts[i]).decision = "Accept"}
        k == CHOOSE i \in acc : \A j \in acc : j <= i
    IN  IF acc # {}
        THEN [fact |-> k, decision |-> "Accept",
              discardFront |-> Accepts(facts[k]).discardFront,
              asked |-> Len(facts)]
        ELSE SelectFrom(facts, 1, FALSE, 0, inputLen)

\* Select, were it to take the discard-front of the first factory that
\* needs more data instead of the least one.
Select_FirstNeedMoreData(facts, inputLen) ==
    LET r == SelectFrom(facts, 1, FALSE, 0, inputLen)
        nmd == {i \in 1..Len(facts) : Accepts(facts[i]).decision = "NeedMoreData"}
        k == CHOOSE i \in nmd : \A j \in nmd : i <= j
    IN  IF r.decision = "NeedMoreData"
        THEN [r EXCEPT !.discardFront = Accepts(facts[k]).discardFront]
        ELSE r

\* Select, were it to return the discard-front of the last rejecting
\* factory instead of the length of the input.
Select_RejectFactoryDiscard(facts, inputLen) ==
    LET r == SelectFrom(facts, 1, FALSE, 0, inputLen) IN
    IF r.decision = "Reject" /\ Len(facts) > 0
    THEN [r EXCEPT !.discardFront = Accepts(facts[Len(facts)]).discardFront]
    ELSE r

\* TCPParserFactorySelector.Select: fact is the index of the accepting
\* factory (0 if none), asked the number of factories consulted.
Select(facts, inputLen) == SelectFrom(facts, 1, FALSE, 0, inputLen)


\* -------------------------------------------------------------- tcpFlow

\* The state of one tcpFlow together with what the invocation asks of the
\* ScatterGather (keepFrom, -1 when sg.KeepFrom was not called) and whether
\* it ends in the tail call reassembledWithIgnore(reenter, sg, ac)
\* (reenter = -1 when it does not).
FlowState(parser, ctx, fed, buf, out, keepFrom, reenter) ==
    [currentParser |-> parser, currentParserCtx |-> ctx, parserFed |-> fed,
     unusedAcceptBuf |-> buf, outChan |-> out,
     keepFrom |-> keepFrom, reenter |-> reenter]

\* The flow as it stands between invocations.
ThisFlow ==
    FlowState(currentParser, currentParserCtx, parserFed, unusedAcceptBuf,
              outChan, -1, -1)

\* tcpFlow.toPNT with gnet.DroppedBytes(len(data)) as content.
DroppedBytes(data) ==
    [kind |-> "DroppedBytes", n |-> Len(data), payload |-> data, cover |-> data]

\* tcpFlow.toPNT with a parsed message as content: payload is the data of
\* the delivery that completed the message, cover the bytes the parser
\* consumed for it.
Parsed(payload, cover) ==
    [kind |-> "Parsed", n |-> 0, payload |-> payload, cover |-> cover]

\* tcpFlow.handleUnparseable: one dropped-bytes record, unless data is empty.
handleUnparseable(out, data) ==
    IF Len(data) > 0 THEN Append(out, DroppedBytes(data)) ELSE out

\* contextFromTCPPacket: the context of a packet carries its TCP sequence
\* and acknowledgement numbers.
contextFromTCPPacket(seq) == [seq |-> seq, ack |-> AckBase + seq]

\* factory.CreateParser(bidiID, ctx.seq, ctx.ack)
CreateParser(fact, ctx) == [fact |-> fact, seq |-> ctx.seq, ack |-> ctx.ack]

\* The unused bytes Parse returns with its result: the last unusedLen bytes
\* of its input; with an error or with no result it returns an empty view.
ParseUnused(input, unusedLen) ==
    SubView(input, Len(input) - unusedLen, Len(input))

\* UnusedOffset, were the length of the unused bytes taken for their offset.
UnusedOffset_Length(bytesAvailable, unusedLen) == unusedLen

\* UnusedOffset, were the unused bytes counted from where this invocation
\* began in a ScatterGather it shares with the invocations before it.
UnusedOffset_FromStart(bytesAvailable, unusedLen) == 0

\* bytesAvailable-int(unused.Len()): the offset in sg of the first byte the
\* parser left unused.
UnusedOffset(bytesAvailable, unusedLen) == bytesAvailable - unusedLen

\* Lines 134-175 of reassembledWithIgnore: dispatch pktData to the active
\* parser. outcome and unusedLen are what Parse returned.
ParseStage(f, bytesAvailable, pktData, isEnd, outcome, unusedLen) ==
    LET fed == f.parserFed \o pktData IN
    IF outcome = "error"
    THEN FlowState(NilParser, NilCtx, <<>>, f.unusedAcceptBuf,
                   handleUnparseable(f.outChan, pktData), -1, -1)
    ELSE IF outcome = "result"
    THEN LET out == Append(f.outChan,
                           Parsed(pktData, SubView(fed, 0, Len(fed) - unusedLen)))
         IN  IF unusedLen > 0
             THEN IF isEnd
                  THEN FlowState(NilParser, NilCtx, <<>>, f.unusedAcceptBuf, out,
                                 -1, UnusedOffset(bytesAvailable, unusedLen))
                  ELSE FlowState(NilParser, NilCtx, <<>>, f.unusedAcceptBuf, out,
                                 UnusedOffset(bytesAvailable, unusedLen), -1)
             ELSE FlowState(NilParser, NilCtx, <<>>, f.unusedAcceptBuf, out,
                            -1, -1)
    ELSE FlowState(f.currentParser, f.currentParserCtx, fed, f.unusedAcceptBuf,
                   f.outChan, -1, -1)

\* case gnet.NeedMoreData: keep the data for the next reassembled call.
NeedMoreDataCase(f, out, pktData, ignore, discardFront) ==
    FlowState(f.currentParser, f.currentParserCtx, f.parserFed, pktData, out,
              ignore + discardFront, -1)

\* RejectCase, were the residual buffer not cleared.
RejectCase_NoClear(f, out) ==
    FlowState(f.currentParser, f.currentParserCtx, f.parserFed,
              f.unusedAcceptBuf, out, -1, -1)

\* case gnet.Reject: f.unusedAcceptBuf.Clear().
RejectCase(f, out) ==
    FlowState(f.currentParser, f.currentParserCtx, f.parserFed, <<>>, out, -1, -1)

\* AcceptCase, were the residual buffer not cleared.
AcceptCase_NoClear(f, out, pktData, fact, ctx) ==
    IF ctx = NilCtx
    THEN FlowState(f.currentParser, f.currentParserCtx, f.parserFed,
                   f.unusedAcceptBuf, handleUnparseable(out, pktData), -1, -1)
    ELSE FlowState(CreateParser(fact, ctx), ctx, <<>>, f.unusedAcceptBuf, out,
                   -1, -1)

\* case gnet.Accept, up to the creation of the parser: the flow with the
\* new parser, or the flow after handleUnparseable when the first byte has
\* no assembler context.
AcceptCase(f, out, pktData, fact, ctx) ==
    IF ctx = NilCtx
    THEN FlowState(f.currentParser, f.currentParserCtx, f.parserFed, <<>>,
                   handleUnparseable(out, pktData), -1, -1)
    ELSE FlowState(CreateParser(fact, ctx), ctx, <<>>, <<>>, out, -1, -1)

\* tcpFlow.reassembledWithIgnore, one invocation. sg holds sgBytesNow;
\* sel is what factorySelector.Select answered (used only when no parser
\* is active), ctx what sg.AssemblerContext returned for the first byte
\* after the discarded front (NilCtx for nil), outcome and unusedLen what
\* Parse returned.
reassembledWithIgnore(f, ignore, sgBytesNow, isEnd, sel, ctx, outcome, unusedLen) ==
    LET bytesAvailable == Len(sgBytesNow)
        pktData0 == SubView(sgBytesNow, ignore, bytesAvailable)
    IN
    IF f.currentParser = NilParser
    THEN LET out1 == IF sel.discardFront > 0
                     THEN handleUnparseable(f.outChan, pktData0)
                     ELSE f.outChan
             pktData == IF sel.discardFront > 0
                        THEN SubView(pktData0, sel.discardFront, Len(pktData0))
                        ELSE pktData0
         IN
         IF sel.decision = "NeedMoreData"
         THEN NeedMoreDataCase(f, out1, pktData, ignore, sel.discardFront)
         ELSE IF sel.decision = "Reject"
         THEN RejectCase(f, out1)
         ELSE IF sel.decision = "Accept"
         THEN IF ctx = NilCtx
              THEN AcceptCase(f, out1, pktData, sel.fact, ctx)
              ELSE ParseStage(AcceptCase(f, out1, pktData, sel.fact, ctx),
                              bytesAvailable, pktData, isEnd, outcome, unusedLen)
         ELSE FlowState(f.currentParser, f.currentParserCtx, f.parserFed,
                        f.unusedAcceptBuf, handleUnparseable(out1, pktData),
                        -1, -1)
    ELSE ParseStage(f, bytesAvailable, pktData0, isEnd, outcome, unusedLen)

\* tcpFlow.reassemblyComplete. outcome is what Parse(empty, true) returned.
reassemblyComplete(f, outcome) ==
    IF f.currentParser # NilParser
    THEN LET unused == ParseUnused(<<>>, 0)
             out == IF outcome = "error"
                    THEN handleUnparseable(f.outChan, unused)
                    ELSE IF outcome = "result"
                    THEN handleUnparseable(
                             Append(f.outChan, Parsed(unused, f.parserFed)), unused)
                    ELSE f.outChan
         IN  FlowState(NilParser, NilCtx, <<>>, f.unusedAcceptBuf, out, -1, -1)
    ELSE IF Len(f.unusedAcceptBuf) > 0
    THEN FlowState(f.currentParser, f.currentParserCtx, f.parserFed,
                   f.unusedAcceptBuf,
                   Append(f.outChan, DroppedBytes(f.unusedAcceptBuf)), -1, -1)
    ELSE f


\* ------------------------------------------------ factories of the flow

\* What one recognizer factory may answer on an input of inputLen bytes:
\* a unit accepted at an offset inside the input, more data needed with
\* part of the front discarded (never at the end of the stream, where every
\* factory turns NeedMoreData into Reject), or a rejection.
FactoryAnswer(inputLen, isEnd) ==
    {[decision |-> "Accept", discardFront |-> d] : d \in 0..(inputLen - 1)}
    \cup {[decision |-> "NeedMoreData", discardFront |-> d] :
             d \in IF isEnd THEN {} ELSE 0..inputLen}
    \cup {[decision |-> "Reject", discardFront |-> d] : d \in {0, inputLen}}

\* The selector's answers over every way the flow's factories may answer.
SelectAnswers(inputLen, isEnd) ==
    {Select(facts, inputLen) :
        facts \in [1..NumFactories -> FactoryAnswer(inputLen, isEnd)]}

NoSelect == [fact |-> 0, decision |-> "-", discardFront |-> 0, asked |-> 0]

ParseOutcomes == {"none", "result", "error"}

NoLast ==
    [op |-> "none", isEnd |-> FALSE, pktData |-> <<>>, hadParser |-> FALSE,
     sel |-> NoSelect, ctx |-> NilCtx, parsed |-> FALSE, parseInput |-> <<>>,
     outcome |-> "-", unused |-> <<>>, fedBefore |-> <<>>,
     bufBefore |-> <<>>, outBefore |-> 0, sg |-> <<>>, ignore |-> 0]

\* ------------------------------------------------------------- actions

\* One invocation of reassembledWithIgnore(ignore, sg, ac) on the
\* ScatterGather contents sgNow, over everything the selector, the
\* ScatterGather and the parser may answer.
Invoke(ignore, sgNow, isEnd) ==
    LET pktData0 == SubView(sgNow, ignore, Len(sgNow))
        hadParser == currentParser # NilParser
    IN
    \E sel \in IF hadParser THEN {NoSelect}
               ELSE SelectAnswers(Len(pktData0), isEnd) :
      LET pktData == IF (~hadParser) /\ sel.discardFront > 0
                     THEN SubView(pktData0, sel.discardFront, Len(pktData0))
                     ELSE pktData0
          accepted == (~hadParser) /\ sel.decision = "Accept"
      IN
      \E ctx \in IF accepted
                 THEN {NilCtx, pktCtx'[sgNow[ignore + sel.discardFront + 1]]}
                 ELSE {NilCtx} :
        LET parsed == hadParser \/ (accepted /\ ctx # NilCtx) IN
        \E outcome \in IF parsed THEN ParseOutcomes ELSE {"-"} :
          \E unusedLen \in IF outcome = "result"
                           THEN 0..Max(0, Len(pktData) - 1) ELSE {0} :
            LET r == reassembledWithIgnore(ThisFlow, ignore, sgNow, isEnd,
                                           sel, ctx, outcome, unusedLen)
            IN
            /\ currentParser' = r.currentParser
            /\ currentParserCtx' = r.currentParserCtx
            /\ parserFed' = r.parserFed
            /\ unusedAcceptBuf' = r.unusedAcceptBuf
            /\ outChan' = r.outChan
            /\ IF r.reenter >= 0
               THEN /\ phase' = "reenter"
                    /\ sgBytes' = sgNow
                    /\ ignoreCount' = r.reenter
                    /\ kept' = <<>>
               ELSE /\ phase' = IF isEnd THEN "ended" ELSE "open"
                    /\ sgBytes' = <<>>
                    /\ ignoreCount' = 0
                    /\ kept' = IF r.keepFrom >= 0
                               THEN SubView(sgNow, r.keepFrom, Len(sgNow))
                               ELSE <<>>
            /\ last' = [op |-> "reassembled", isEnd |-> isEnd,
                        pktData |-> pktData0, hadParser |-> hadParser,
                        sel |-> sel, ctx |-> ctx, parsed |-> parsed,
                        parseInput |-> IF parsed THEN pktData ELSE <<>>,
                        outcome |-> outcome,
                        unused |-> ParseUnused(pktData, unusedLen),
                        fedBefore |-> parserFed,
                        bufBefore |-> unusedAcceptBuf,
                        outBefore |-> Len(outChan),
                        sg |-> sgNow, ignore |-> ignore]

\* tcpFlow.reassembled: the reassembler delivers the bytes it kept for the
\* flow followed by n new bytes of one packet.
Reassembled ==
    /\ phase = "open"
    /\ \E n \in 0..MaxChunk, isEnd \in BOOLEAN :
         /\ delivered + n <= MaxBytes
         /\ delivered' = delivered + n
         /\ pktCtx' = pktCtx \o [i \in 1..n |-> contextFromTCPPacket(delivered + 1)]
         /\ Invoke(0, kept \o Range(delivered + 1, delivered + n), isEnd)
    /\ UNCHANGED selVars
    /\ UNCHANGED restVars

\* The tail call of reassembledWithIgnore at the end of the stream: the
\* unused bytes of a completed message re-enter selection.
ReassembledReenter ==
    /\ phase = "reenter"
    /\ UNCHANGED <<delivered, pktCtx>>
    /\ Invoke(ignoreCount, sgBytes, TRUE)
    /\ UNCHANGED selVars
    /\ UNCHANGED restVars

\* tcpFlow.reassemblyComplete: the stream of the flow terminates.
ReassemblyComplete ==
    /\ phase \in {"open", "ended"}
    /\ \E outcome \in IF currentParser # NilParser THEN ParseOutcomes ELSE {"-"} :
         LET r == reassemblyComplete(ThisFlow, outcome) IN
         /\ currentParser' = r.currentParser
         /\ currentParserCtx' = r.currentParserCtx
         /\ parserFed' = r.parserFed
         /\ unusedAcceptBuf' = r.unusedAcceptBuf
         /\ outChan' = r.outChan
         /\ last' = [op |-> "complete", isEnd |-> TRUE, pktData |-> <<>>,
                     hadParser |-> currentParser # NilParser,
                     sel |-> NoSelect, ctx |-> NilCtx,
                     parsed |-> currentParser # NilParser,
                     parseInput |-> <<>>, outcome |-> outcome,
                     unused |-> <<>>, fedBefore |-> parserFed,
                     bufBefore |-> unusedAcceptBuf,
                     outBefore |-> Len(outChan), sg |-> <<>>, ignore |-> 0]
    /\ phase' = "done"
    /\ UNCHANGED <<delivered, kept, pktCtx, sgBytes, ignoreCount>>
    /\ UNCHANGED selVars
    /\ UNCHANGED restVars

FlowInit ==
    /\ phase = "open"
    /\ delivered = 0
    /\ kept = <<>>
    /\ pktCtx = <<>>
    /\ sgBytes = <<>>
    /\ ignoreCount = 0
    /\ currentParser = NilParser
    /\ currentParserCtx = NilCtx
    /\ parserFed = <<>>
    /\ unusedAcceptBuf = <<>>
    /\ outChan = <<>>
    /\ last = NoLast

SelIdle ==
    /\ selFacts = <<>>
    /\ selInputLen = 0
    /\ selResult = NoSelect

Init == FlowInit /\ SelIdle /\ RestIdle

Next ==
    \/ Reassembled
    \/ ReassembledReenter
    \/ ReassemblyComplete

Spec == Init /\ [][Next]_vars


\* ------------------------------------------------- the selector alone

\* testFactory{decision, discardFront} of TestTCPParserFactorySelector:
\* a factory that answers the same whatever the input, also with a
\* negative discard-front.
TestFactories ==
    [decision : Decisions, discardFront : (-1)..MaxSelInput]

\* The factory lists of at most n factories.
FactoryLists(n) ==
    UNION {[1..k -> TestFactories] : k \in 0..n}

SelInit ==
    /\ FlowInit
    /\ selFacts \in FactoryLists(MaxSelFactories)
    /\ selInputLen \in 0..MaxSelInput
    /\ selResult = NoSelect
    /\ RestIdle

\* s := TCPParserFactorySelector(c.facts); s.Select(testInput, true)
SelectorSelect ==
    /\ selResult = NoSelect
    /\ selResult' = Select(selFacts, selInputLen)
    /\ UNCHANGED <<selFacts, selInputLen>>
    /\ UNCHANGED flowVars
    /\ UNCHANGED restVars

SelNext == SelectorSelect

SelSpec == SelInit /\ [][SelNext]_vars

\* ---------------------------------------------- claims on the selector

Selected == selResult # NoSelect

AcceptingFactories == {i \in 1..Len(selFacts) : selFacts[i].decision = "Accept"}
NeedingFactories == {i \in 1..Len(selFacts) : selFacts[i].decision = "NeedMoreData"}

FirstAccepting == CHOOSE i \in AcceptingFactories : \A j \in AcceptingFactories : i <= j

\* C8: when some factory of the list answers Accept, the selector returns
\* Accept with the first such factory in list order and with that factory's
\* discard-front, whatever the factories before it answered, and it has
\* consulted no factory after it.
C8_FirstAcceptWins ==
    (Selected /\ AcceptingFactories # {}) =>
        /\ selResult.decision = "Accept"
        /\ selResult.fact = FirstAccepting
        /\ selResult.discardFront = selFacts[FirstAccepting].discardFront
        /\ selResult.asked = FirstAccepting

\* The selector accepted the second factory of a list whose first factory
\* asked for more data and whose third factory would have accepted too.
C8_Witness ==
    /\ Selected
    /\ Len(selFacts) = 3
    /\ selFacts[1].decision = "NeedMoreData"
    /\ selFacts[2].decision = "Accept"
    /\ selFacts[3].decision = "Accept"
    /\ selFacts[2].discardFront # selFacts[3].discardFront
    /\ selResult.fact = 2

\* C9: when no factory answers Accept and at least one answers NeedMoreData,
\* the selector returns NeedMoreData with the least discard-front among the
\* factories that answered NeedMoreData; what the rejecting factories
\* returned as discard-front has no influence.
C9_NeedMoreDataMin ==
    (Selected /\ AcceptingFactories = {} /\ NeedingFactories # {}) =>
        /\ selResult.decision = "NeedMoreData"
        /\ \E i \in NeedingFactories :
               selResult.discardFront = selFacts[i].discardFront
        /\ \A i \in NeedingFactories :
               selResult.discardFront <= selFacts[i].discardFront

\* Two factories asked for more data with different discard-fronts, the
\* larger one first, and a rejecting factory returned a smaller one still.
C9_Witness ==
    /\ Selected
    /\ Len(selFacts) = 3
    /\ selFacts[1] = [decision |-> "NeedMoreData", discardFront |-> 2]
    /\ selFacts[2] = [decision |-> "Reject", discardFront |-> -1]
    /\ selFacts[3] = [decision |-> "NeedMoreData", discardFront |-> 1]
    /\ selResult.discardFront = 1

\* C10: when every factory answers Reject, and when there is no factory,
\* the selector returns Reject with a discard-front equal to the length of
\* the input, whatever discard-fronts the factories returned.
C10_RejectWholeInput ==
    (Selected /\ AcceptingFactories = {} /\ NeedingFactories = {}) =>
        /\ selResult.decision = "Reject"
        /\ selResult.discardFront = selInputLen

\* Every factory of a non-empty list rejected with a negative discard-front
\* on a non-empty input.
C10_Witness ==
    /\ Selected
    /\ Len(selFacts) >= 2
    /\ \A i \in 1..Len(selFacts) :
           selFacts[i] = [decision |-> "Reject", discardFront |-> -1]
    /\ selInputLen > 0
    /\ selResult.discardFront = selInputLen

\* The selector returned Reject on an empty factory list.
C10_WitnessNoFactories ==
    /\ Selected
    /\ selFacts = <<>>
    /\ selResult.decision = "Reject"


\* -------------------------------------------------- claims on the flow

\* The records the last invocation sent on outChan.
Emitted == SubSeq(outChan, last.outBefore + 1, Len(outChan))

\* The byte coverage of every record of out, concatenated in emission order.
RECURSIVE Coverage(_)
Coverage(out) ==
    IF out = <<>> THEN <<>> ELSE Head(out).cover \o Coverage(Tail(out))

\* The selector decided on the candidate bytes in the last invocation.
SelectorDecided(decision) ==
    /\ last.op = "reassembled"
    /\ ~last.hadParser
    /\ last.sel.decision = decision

DiscardedPrefix == SubView(last.pktData, 0, last.sel.discardFront)
RetainedTail == SubView(last.pktData, last.sel.discardFront, Len(last.pktData))

\* C1: once the stream of the flow has terminated, the byte coverage of the
\* parsed messages and the payloads of the dropped-bytes records,
\* concatenated in emission order, are the delivered bytes in order: no
\* byte is missing and none is reported twice.
C1_BytesReconstructed ==
    phase = "done" => Coverage(outChan) = Range(1, delivered)

\* C2: when no parser is active and the selector answers NeedMoreData with
\* discard-front d, the flow retains the candidate bytes from offset d on
\* for the next delivery and sends the prefix [0, d) as one dropped-bytes
\* record, and nothing when d = 0.
C2_NeedMoreDataKeepsTail ==
    SelectorDecided("NeedMoreData") =>
        /\ unusedAcceptBuf = RetainedTail
        /\ kept = RetainedTail
        /\ Emitted = IF last.sel.discardFront > 0
                     THEN <<DroppedBytes(DiscardedPrefix)>> ELSE <<>>

\* C3: when Parse of the active parser fails, the flow sends every byte the
\* parser was fed since its creation as dropped bytes and has no parser
\* afterwards.
C3_ParseErrorDropsAllFed ==
    (last.op = "reassembled" /\ last.parsed /\ last.outcome = "error") =>
        /\ currentParser = NilParser
        /\ currentParserCtx = NilCtx
        /\ Len(outChan) > 0
        /\ outChan[Len(outChan)] = DroppedBytes(last.fedBefore \o last.parseInput)

\* C4: when no parser is active and the selector answers Accept with
\* discard-front d (and the first byte after the front has a context), the
\* flow sends the prefix [0, d) as dropped bytes, creates the parser of the
\* accepting factory with the sequence and acknowledgement numbers of the
\* byte at offset d, and feeds it the bytes from offset d on.
C4_AcceptCreatesParser ==
    (SelectorDecided("Accept") /\ last.ctx # NilCtx) =>
        /\ last.sel.discardFront > 0 =>
               /\ Emitted # <<>>
               /\ Emitted[1] = DroppedBytes(DiscardedPrefix)
        /\ last.parseInput = RetainedTail
        /\ last.outcome = "none" =>
               /\ currentParser = [fact |-> last.sel.fact,
                                   seq |-> pktCtx[RetainedTail[1]].seq,
                                   ack |-> pktCtx[RetainedTail[1]].ack]
               /\ parserFed = RetainedTail

\* C5: when no parser is active and the selector answers Reject, the flow
\* sends the whole candidate input as one dropped-bytes record, nothing
\* is retained for the next delivery, and the flow has no parser and an
\* empty partial buffer.
C5_RejectDropsInput ==
    SelectorDecided("Reject") =>
        /\ Emitted = IF last.pktData # <<>>
                     THEN <<DroppedBytes(last.pktData)>> ELSE <<>>
        /\ unusedAcceptBuf = <<>>
        /\ kept = <<>>
        /\ phase # "reenter"
        /\ currentParser = NilParser
        /\ currentParserCtx = NilCtx

\* The selector rejected two or more candidate bytes, some of them retained
\* from an earlier delivery that needed more data.
C5_Witness ==
    /\ SelectorDecided("Reject")
    /\ Len(last.pktData) >= 2
    /\ last.bufBefore # <<>>
    /\ Len(last.bufBefore) < Len(last.pktData)
    /\ Emitted = <<DroppedBytes(last.pktData)>>

\* The last invocation's parser returned a complete message.
ParseCompleted ==
    /\ last.op = "reassembled"
    /\ last.parsed
    /\ last.outcome = "result"

C6_WitnessAtEnd ==
    /\ ParseCompleted
    /\ last.isEnd
    /\ last.unused # <<>>
    /\ phase = "reenter"
    /\ SubView(sgBytes, ignoreCount, Len(sgBytes)) = last.unused

\* C7: at the termination of the stream, an active parser is given
\* Parse(empty, true) and its result is sent as a message and its error as
\* dropped bytes; without a parser a non-empty residual selector buffer is
\* sent as dropped bytes; the flow has no parser afterwards.
C7_TerminationFlushes ==
    last.op = "complete" =>
        /\ currentParser = NilParser
        /\ currentParserCtx = NilCtx
        /\ (last.hadParser /\ last.outcome = "result") =>
               (Emitted # <<>> /\ Emitted[1].kind = "Parsed")
        /\ (last.hadParser /\ last.outcome = "error") =>
               (Emitted # <<>> /\ Emitted[1].kind = "DroppedBytes")
        /\ ~last.hadParser =>
               Emitted = IF last.bufBefore # <<>>
                         THEN <<DroppedBytes(last.bufBefore)>> ELSE <<>>

\* ------------------------------------------- recognizer factories alone

\* Longest input tried on a recognizer factory.
MaxAccInput == 25
\* Largest offset at which a pattern is placed in the input.
MaxAccStart == 1
\* Most methods of supportedHTTPMethods that occur in one input.
MaxHits == 2

\* len(connectionPreface)
connectionPrefaceLen == 24
minSupportedHTTPMethodLength == 3
maxSupportedHTTPMethodLength == 7
minHTTPResponseStatusLineLength == 12
\* len("HTTP/1.1") = len("HTTP/1.0")
httpVersionLen == 8
\* the versions tried by httpResponseParserFactory.Accepts
NumVersions == 2
minTLSClientHelloLength_bytes == 11
minTLSServerHelloLength_bytes == 11
\* minFtpCMDLengthBytes of package ctp and of package ftp
ctpMinFtpCMDLengthBytes == 5
ftpMinFtpCMDLengthBytes == 7

RecognizerFactories ==
    {"httpRequest", "httpResponse", "http2Preface",
     "tlsClient", "tlsServer", "tlsCertificate",
     "ctpRequest", "ctpResponse", "ftpRequest", "ftpResponse"}

Answer(decision, discardFront) ==
    [decision |-> decision, discardFront |-> discardFront]

\* The first pattern occurrence of the loop whose line check answers Accept
\* or NeedMoreData; a Reject lets the loop go on. NoHit if there is none.
RECURSIVE FirstHit(_)
FirstHit(hits) ==
    IF hits = <<>> THEN NoHit
    ELSE IF Head(hits).line \in {"Accept", "NeedMoreData"} THEN Head(hits)
    ELSE FirstHit(Tail(hits))

\* The conversion at the end of the stream left out.
EndOfStream_Keep(ans, inputLen, isEnd) == ans

\* if decision == gnet.NeedMoreData && isEnd { decision = gnet.Reject;
\* discardFront = input.Len() }
EndOfStream(ans, inputLen, isEnd) ==
    IF ans.decision = "NeedMoreData" /\ isEnd
    THEN Answer("Reject", inputLen)
    ELSE ans

\* httpRequestParserFactory.Accepts; input.hits are the supported methods
\* found by input.Index, in loop order, each with the answer of
\* hasValidHTTPRequestLine on what follows it.
httpRequestAccepts(input, isEnd) ==
    EndOfStream(
        IF input.len < minSupportedHTTPMethodLength
        THEN Answer("NeedMoreData", 0)
        ELSE LET h == FirstHit(input.hits) IN
             IF h # NoHit THEN Answer(h.line, h.start)
             ELSE IF input.len < maxSupportedHTTPMethodLength
                  THEN Answer("NeedMoreData", 0)
                  ELSE Answer("Reject", input.len),
        input.len, isEnd)

\* httpResponseParserFactory.Accepts; input.hits are the versions found,
\* each with the answer of hasValidHTTPResponseStatusLine.
httpResponseAccepts(input, isEnd) ==
    EndOfStream(
        IF input.len < minHTTPResponseStatusLineLength
        THEN Answer("NeedMoreData", 0)
        ELSE LET h == FirstHit(input.hits) IN
             IF h # NoHit THEN Answer(h.line, h.start)
             ELSE Answer("Reject", input.len),
        input.len, isEnd)

\* http2PrefaceParserFactory.Accepts; input.hits holds the occurrence of the
\* connection preface if there is one, input.partial the index of the
\* preface's first byte in the last 23 bytes, -1 if it is not there.
http2PrefaceAccepts(input, isEnd) ==
    IF input.len < connectionPrefaceLen
    THEN IF isEnd THEN Answer("Reject", input.len)
         ELSE Answer("NeedMoreData", 0)
    ELSE IF input.hits # <<>> THEN Answer("Accept", Head(input.hits).start)
    ELSE IF isEnd THEN Answer("Reject", input.len)
    ELSE IF input.partial >= 0 THEN Answer("NeedMoreData", input.partial)
    ELSE Answer("Reject", input.len)

\* tlsClientParserFactory.accepts, tlsServerParserFactory.accepts and
\* tlsCertificateParserFactory.accepts; input.match: every masked byte of
\* the handshake pattern is the expected one.
tlsAccepts(input, minLength) ==
    IF input.len < minLength THEN Answer("NeedMoreData", 0)
    ELSE IF ~input.match THEN Answer("Reject", input.len)
    ELSE Answer("Accept", 0)

\* The accepts of packages ctp and ftp; input.match: the command or the
\* response code is a known one and the input ends with CR LF.
ctpAccepts(input, minLength) ==
    IF input.len < minLength THEN Answer("NeedMoreData", 0)
    ELSE IF ~input.match THEN Answer("Reject", 0)
    ELSE Answer("Accept", 0)

\* factory.Accepts(input, isEnd) of each recognizer factory.
FactoryAcceptsOf(fact, input, isEnd) ==
    CASE fact = "httpRequest" -> httpRequestAccepts(input, isEnd)
      [] fact = "httpResponse" -> httpResponseAccepts(input, isEnd)
      [] fact = "http2Preface" -> http2PrefaceAccepts(input, isEnd)
      [] fact = "tlsClient" ->
            EndOfStream(tlsAccepts(input, minTLSClientHelloLength_bytes),
                        input.len, isEnd)
      [] fact = "tlsServer" ->
            EndOfStream(tlsAccepts(input, minTLSServerHelloLength_bytes),
                        input.len, isEnd)
      [] fact = "tlsCertificate" ->
            EndOfStream(tlsAccepts(input, minTLSClientHelloLength_bytes),
                        input.len, isEnd)
      [] fact \in {"ctpRequest", "ctpResponse"} ->
            EndOfStream(ctpAccepts(input, ctpMinFtpCMDLengthBytes),
                        input.len, isEnd)
      [] fact \in {"ftpRequest", "ftpResponse"} ->
            EndOfStream(ctpAccepts(input, ftpMinFtpCMDLengthBytes),
                        input.len, isEnd)

\* Occurrences of a pattern of patLen bytes in an input of n bytes.
HitsAt(n, patLen) ==
    [start : 0..Min(MaxAccStart, n - patLen), line : Decisions]

\* At most k occurrences, in loop order.
HitLists(n, patLen, k) ==
    UNION {[1..j -> HitsAt(n, patLen)] : j \in 0..k}

\* What the tests of factory fact can see of an input of n bytes.
InputsOf(fact, n) ==
    CASE fact = "httpRequest" ->
            {[len |-> n, hits |-> hs, match |-> FALSE, partial |-> -1] :
                hs \in HitLists(n, minSupportedHTTPMethodLength, MaxHits)}
      [] fact = "httpResponse" ->
            {[len |-> n, hits |-> hs, match |-> FALSE, partial |-> -1] :
                hs \in HitLists(n, httpVersionLen, NumVersions)}
      [] fact = "http2Preface" ->
            {[len |-> n, hits |-> hs, match |-> FALSE, partial |-> p] :
                hs \in {h \in HitLists(n, connectionPrefaceLen, 1) :
                            \A i \in DOMAIN h : h[i].line = "Accept"},
                p \in {-1} \cup
                      {q \in 0..(n - 1) :
                          /\ q >= n - connectionPrefaceLen + 1
                          /\ q <= n - connectionPrefaceLen + 1 + MaxAccStart}}
      [] OTHER ->
            {[len |-> n, hits |-> <<>>, match |-> m, partial |-> -1] :
                m \in BOOLEAN}

AccInit ==
    /\ FlowInit
    /\ SelIdle
    /\ accFact \in RecognizerFactories
    /\ accIsEnd \in BOOLEAN
    /\ \E n \in 0..MaxAccInput : accInput \in InputsOf(accFact, n)
    /\ accResult = NoAnswer
    /\ DispInit
    /\ CapIdle
    /\ MemIdle
    /\ ExtIdle

\* decision, discardFront := factory.Accepts(input, isEnd)
FactoryAccepts ==
    /\ accResult = NoAnswer
    /\ accResult' = FactoryAcceptsOf(accFact, accInput, accIsEnd)
    /\ UNCHANGED <<accFact, accInput, accIsEnd>>
    /\ UNCHANGED <<flowVars, selVars, dispVars, capVars, memVars, extVars>>

AccNext == FactoryAccepts

AccSpec == AccInit /\ [][AccNext]_vars

\* --------------------------------- claims on the recognizer factories

\* C11: whatever the factory and the input, Accepts(input, isEnd = true)
\* never answers NeedMoreData; where the same input without isEnd is
\* answered NeedMoreData, the answer at the end of the stream is Reject
\* with a discard-front equal to the whole input length.
C11_EndNeverNeedsMore ==
    (accResult # NoAnswer /\ accIsEnd) =>
        /\ accResult.decision # "NeedMoreData"
        /\ FactoryAcceptsOf(accFact, accInput, FALSE).decision = "NeedMoreData"
              => accResult = Answer("Reject", accInput.len)

\* A factory asked at the end of the stream on a non-empty input that it
\* would answer NeedMoreData (with a discard-front > 0) before the end.
C11_Witness ==
    /\ accResult # NoAnswer
    /\ accIsEnd
    /\ accInput.len > 0
    /\ LET early == FactoryAcceptsOf(accFact, accInput, FALSE) IN
          /\ early.decision = "NeedMoreData"
          /\ early.discardFront > 0
    /\ accResult = Answer("Reject", accInput.len)

\* ------------------------------------------------------ dispatch task

\* Number of packets the capture task sends before it closes its channel.
MaxPackets == 2
\* Capacity of the emission channel p.outchan.
OutChanCap == 1

\* What PacketToNetTraffic distinguishes in a packet: no network layer, a
\* TCP segment, or anything else (UDP, DNS, ICMP: one record is sent). The
\* packet source never sends a nil packet.
PacketKinds == {"nonet", "tcp", "other"}

\* The shapes of a tcpFlow between two callbacks: not created yet, no
\* parser and nothing buffered, no parser and bytes in unusedAcceptBuf, a
\* parser active, completed and removed from the pool.
OpenShapes == {"idle", "residual", "parser"}

\* A tcpFlow of each open shape.
FlowOf(shape) ==
    CASE shape = "parser" ->
            FlowState(CreateParser(1, contextFromTCPPacket(1)),
                      contextFromTCPPacket(1), <<1>>, <<>>, <<>>, -1, -1)
      [] shape = "residual" ->
            FlowState(NilParser, NilCtx, <<>>, <<1>>, <<>>, -1, -1)
      [] OTHER ->
            FlowState(NilParser, NilCtx, <<>>, <<>>, <<>>, -1, -1)

OpenFlows == {i \in 1..NumDispFlows : dispFlows[i] \in OpenShapes}

\* The record sent for packet id, and the records flow i sends when it is
\* completed.
PacketRecord(id, kind) == [src |-> "packet", id |-> id, kind |-> kind]
FlushRecords(i, out) ==
    [k \in 1..Len(out) |-> [src |-> "flush", id |-> i, kind |-> out[k].kind]]

\* tcpStream.Accept on the first packet of a connection: if c.flows == nil
\* both flows are created (a completed stream has left the pool, the next
\* packet of the connection gets a new one).
Accept(flows) ==
    IF \A i \in DOMAIN flows : flows[i] \in OpenShapes THEN flows
    ELSE [i \in DOMAIN flows |-> "idle"]

\* How the packet taken from the packet channel was handled.
HandledAs(kind, panicked) == [kind |-> kind, panicked |-> panicked]

\* A panic that is not recovered ends the goroutine, and the program.
Recover_None == "crashed"

\* defer func() { if err := recover(); err != nil { ... } }() of
\* PacketToNetTraffic: the handler returns to its caller, the dispatch loop.
Recover == "select"

\* FlushAll, were no flow completed.
FlushAll_None(open) == {}

\* assembler.FlushAll(): every stream of the pool is completed, and
\* tcpStream.ReassemblyComplete completes each of its flows.
FlushAll(open) == open

\* tcpStream.ReassemblyComplete on the flows todo, taken in the order
\* order (Go ranges over the map c.flows in any order): the records the
\* flows' reassemblyComplete send, outcome[i] being what Parse(empty, true)
\* of flow i returned.
RECURSIVE CompletionRecords(_, _, _)
CompletionRecords(order, flows, outcome) ==
    IF order = <<>> THEN <<>>
    ELSE LET i == Head(order)
             g == reassemblyComplete(FlowOf(flows[i]), outcome[i])
         IN  FlushRecords(i, g.outChan)
                \o CompletionRecords(Tail(order), flows, outcome)

\* The orders in which the flows todo can be taken.
Orders(todo) ==
    {o \in [1..Cardinality(todo) -> todo] :
        \A j, k \in DOMAIN o : j # k => o[j] # o[k]}

\* The stream's flows todo are completed: their records are to be sent,
\* each flow's Parse(empty, isEnd = true) has been called if it had a parser.
Complete(todo) ==
    /\ \E order \in Orders(todo), outcome \in [todo -> ParseOutcomes] :
          dispPending' = CompletionRecords(order, dispFlows, outcome)
    /\ dispHist' = [i \in 1..NumDispFlows |->
                       IF i \in todo
                       THEN [shape |-> dispFlows[i],
                             isEnd |-> FlowOf(dispFlows[i]).currentParser
                                          # NilParser]
                       ELSE dispHist[i]]
    /\ dispFlows' = [i \in 1..NumDispFlows |->
                        IF i \in todo THEN "closed" ELSE dispFlows[i]]

\* Where the dispatch goroutine is once its handler has nothing more to
\* send: at the select again, or, in the final flush, about to return.
AfterSends(pc, pending) ==
    IF pending = <<>> /\ pc \in {"handle", "flushTick"} THEN "select" ELSE pc

\* The capture task closes the packet channel.
CaptureCloses ==
    /\ ~dispUpClosed
    /\ dispUpClosed' = TRUE
    /\ UNCHANGED <<dispPc, dispPackets, dispSent, dispFlows, dispPending,
                   dispOut, dispOutClosed, dispLog, dispHist, dispHandled>>
    /\ UNCHANGED <<flowVars, selVars, accVars, capVars, memVars, extVars>>

\* case packet, more := <-packets with a packet: p.PacketToNetTraffic runs
\* to its end or to a channel send it has to wait at, or panics and
\* recovers.
ReceivePacket ==
    /\ dispPc = "select"
    /\ dispPackets # <<>>
    /\ LET packet == Head(dispPackets) IN
       \/ /\ packet.kind = "nonet"
          /\ dispHandled' = Append(dispHandled, HandledAs("nonet", FALSE))
          /\ dispPc' = "select"
          /\ UNCHANGED <<dispFlows, dispPending>>
       \/ /\ packet.kind = "other"
          /\ dispPending' = <<PacketRecord(packet.id, "other")>>
          /\ dispHandled' = Append(dispHandled, HandledAs("other", FALSE))
          /\ dispPc' = "handle"
          /\ UNCHANGED dispFlows
       \/ /\ packet.kind = "tcp"
          /\ \E i \in 1..NumDispFlows, shape \in OpenShapes :
                dispFlows' = [Accept(dispFlows) EXCEPT ![i] = shape]
          /\ \E recs \in {<<>>, <<PacketRecord(packet.id, "tcp")>>} :
                /\ dispPending' = recs
                /\ dispPc' = AfterSends("handle", recs)
          /\ dispHandled' = Append(dispHandled, HandledAs("tcp", FALSE))
       \/ /\ packet.kind # "nonet"
          /\ dispPc' = Recover
          /\ dispHandled' = Append(dispHandled, HandledAs(packet.kind, TRUE))
          /\ \/ UNCHANGED dispFlows
             \/ /\ packet.kind = "tcp"
                /\ \E i \in 1..NumDispFlows, shape \in OpenShapes :
                      dispFlows' = [Accept(dispFlows) EXCEPT ![i] = shape]
          /\ UNCHANGED dispPending
    /\ dispPackets' = Tail(dispPackets)
    /\ UNCHANGED <<dispSent, dispUpClosed, dispOut, dispOutClosed,
                   dispLog, dispHist>>
    /\ UNCHANGED <<flowVars, selVars, accVars, capVars, memVars, extVars>>

\* case packet, more := <-packets with !more: assembler.FlushAll()
ReceiveClosed ==
    /\ dispPc = "select"
    /\ dispPackets = <<>>
    /\ dispUpClosed
    /\ dispPc' = "flushAll"
    /\ Complete(FlushAll(OpenFlows))
    /\ UNCHANGED <<dispPackets, dispSent, dispUpClosed, dispOut,
                   dispOutClosed, dispLog, dispHandled>>
    /\ UNCHANGED <<flowVars, selVars, accVars, capVars, memVars, extVars>>

\* case <-ticker.C: assembler.FlushWithOptions completes the stream if it
\* is older than the close threshold.
Tick ==
    /\ dispPc = "select"
    /\ \E old \in {{}, OpenFlows} : Complete(old)
    /\ dispPc' = AfterSends("flushTick", dispPending')
    /\ UNCHANGED <<dispPackets, dispSent, dispUpClosed, dispOut,
                   dispOutClosed, dispLog, dispHandled>>
    /\ UNCHANGED <<flowVars, selVars, accVars, capVars, memVars, extVars>>

\* FlushReturn, were p.outchan closed while the final flush is still sending.
FlushReturn_Early ==
    /\ dispPc = "flushAll"
    /\ ~dispOutClosed
    /\ dispOutClosed' = TRUE
    /\ UNCHANGED <<dispPc, dispPackets, dispSent, dispUpClosed, dispFlows,
                   dispPending, dispOut, dispLog, dispHist, dispHandled>>
    /\ UNCHANGED <<flowVars, selVars, accVars, capVars, memVars, extVars>>

\* The final flush has returned: the goroutine returns and its deferred
\* close(p.outchan) runs.
FlushReturn ==
    /\ dispPc = "flushAll"
    /\ dispPending = <<>>
    /\ dispPc' = "done"
    /\ dispOutClosed' = TRUE
    /\ UNCHANGED <<dispPackets, dispSent, dispUpClosed, dispFlows,
                   dispPending, dispOut, dispLog, dispHist, dispHandled>>
    /\ UNCHANGED <<flowVars, selVars, accVars, capVars, memVars, extVars>>

\* p.outchan <- record: waits while the channel is full; after its last
\* send the handler returns.
Send ==
    /\ dispPc \in {"handle", "flushTick", "flushAll"}
    /\ dispPending # <<>>
    /\ dispOut < OutChanCap
    /\ dispOut' = dispOut + 1
    /\ dispLog' = dispLog \cup {Head(dispPending)}
    /\ dispPending' = Tail(dispPending)
    /\ dispPc' = AfterSends(dispPc, Tail(dispPending))
    /\ UNCHANGED <<dispPackets, dispSent, dispUpClosed, dispFlows,
                   dispOutClosed, dispHist, dispHandled>>
    /\ UNCHANGED <<flowVars, selVars, accVars, capVars, memVars, extVars>>

\* The consumer receives a record from the emission channel.
Consume ==
    /\ dispOut > 0
    /\ dispOut' = dispOut - 1
    /\ UNCHANGED <<dispPc, dispPackets, dispSent, dispUpClosed, dispFlows,
                   dispPending, dispOutClosed, dispLog, dispHist,
                   dispHandled>>
    /\ UNCHANGED <<flowVars, selVars, accVars, capVars, memVars, extVars>>

\* The packets the capture task sends, numbered in the order sent.
PacketStreams ==
    UNION {[1..n -> PacketKinds] : n \in 0..MaxPackets}

\* Parse has started the capture task and then the dispatch goroutine: the
\* capture task's packets are in the packet channel (they fit: the
\* channel holds packetChanCap packets), none is taken yet.
DispSpecInit ==
    /\ FlowInit /\ SelIdle /\ AccIdle /\ CapIdle /\ MemIdle /\ ExtIdle
    /\ \E kinds \in PacketStreams :
          /\ dispPackets = [id \in DOMAIN kinds |->
                               [id |-> id, kind |-> kinds[id]]]
          /\ dispSent = Len(kinds)
    /\ dispPc = "select"
    /\ dispUpClosed = FALSE
    /\ dispFlows = [i \in 1..NumDispFlows |-> "absent"]
    /\ dispPending = <<>>
    /\ dispOut = 0
    /\ dispOutClosed = FALSE
    /\ dispLog = {}
    /\ dispHist = [i \in 1..NumDispFlows |-> NoCompletion]
    /\ dispHandled = <<>>

DispNext ==
    \/ CaptureCloses
    \/ ReceivePacket
    \/ ReceiveClosed
    \/ Tick
    \/ FlushReturn
    \/ Send
    \/ Consume

\* The goroutine of Parse runs whenever it can; a select with a ready
\* packet case takes it again and again (the Go runtime picks among the
\* ready cases at random); the consumer keeps draining the emission channel.
DispFairness ==
    /\ WF_vars(FlushReturn)
    /\ WF_vars(Send)
    /\ SF_vars(ReceivePacket)
    /\ SF_vars(ReceiveClosed)
    /\ WF_vars(Consume)

DispSpec == DispSpecInit /\ [][DispNext]_vars /\ DispFairness

\* ------------------------------------------ claims on the dispatch task

\* Every flow is completed, none is left with a parser or with bytes in
\* its buffer, each parser that was active got Parse(empty, isEnd = true)
\* and each residual buffer was sent as a dropped-bytes record.
AllFlushed ==
    /\ dispPending = <<>>
    /\ \A i \in 1..NumDispFlows :
          /\ dispFlows[i] \in {"absent", "closed"}
          /\ dispHist[i].shape = "parser" => dispHist[i].isEnd
          /\ dispHist[i].shape = "residual" =>
                [src |-> "flush", id |-> i, kind |-> "DroppedBytes"] \in dispLog

Panicked == {id \in DOMAIN dispHandled : dispHandled[id].panicked}

MaxCapPackets == 11
\* make(chan gopacket.Packet, 10)
packetChanCap == 10

CaptureKinds == {"file", "device"}

\* Capture has opened the handle and started its goroutine: the file
\* reader is at its range over packetSource.Packets(), the device reader
\* at its select.
CapInit ==
    /\ FlowInit /\ SelIdle /\ AccIdle /\ DispInit /\ MemIdle /\ ExtIdle
    /\ capKind \in CaptureKinds
    /\ capPc = (IF capKind = "file" THEN "range" ELSE "select")
    /\ capSource \in (IF capKind = "file" THEN 0..MaxCapPackets ELSE {0})
    /\ capOut = 0
    /\ capOutClosed = FALSE
    /\ capHandleOpen = TRUE
    /\ capCtxDone = FALSE
    /\ capConsumerOn = TRUE

\* The context is cancelled.
Cancel ==
    /\ ~capCtxDone
    /\ capCtxDone' = TRUE
    /\ UNCHANGED <<capKind, capPc, capSource, capOut, capOutClosed,
                   capHandleOpen, capConsumerOn>>
    /\ UNCHANGED <<flowVars, selVars, accVars, dispVars, memVars, extVars>>

\* The consumer of out receives a packet.
ConsumerReceives ==
    /\ capConsumerOn
    /\ capOut > 0
    /\ capOut' = capOut - 1
    /\ UNCHANGED <<capKind, capPc, capSource, capOutClosed, capHandleOpen,
                   capCtxDone, capConsumerOn>>
    /\ UNCHANGED <<flowVars, selVars, accVars, dispVars, memVars, extVars>>

\* The consumer of out stops receiving.
ConsumerStops ==
    /\ capConsumerOn
    /\ capConsumerOn' = FALSE
    /\ UNCHANGED <<capKind, capPc, capSource, capOut, capOutClosed,
                   capHandleOpen, capCtxDone>>
    /\ UNCHANGED <<flowVars, selVars, accVars, dispVars, memVars, extVars>>

\* FileReader: for packet := range packetSource.Packets() yields a packet.
FileNextPacket ==
    /\ capKind = "file"
    /\ capPc = "range"
    /\ capSource > 0
    /\ capSource' = capSource - 1
    /\ capPc' = "select"
    /\ UNCHANGED <<capKind, capOut, capOutClosed, capHandleOpen, capCtxDone,
                   capConsumerOn>>
    /\ UNCHANGED <<flowVars, selVars, accVars, dispVars, memVars, extVars>>

\* FileReader: the file is read to its end, the range loop ends and the
\* goroutine returns; the deferred close(out) runs first.
FileEOF ==
    /\ capKind = "file"
    /\ capPc = "range"
    /\ capSource = 0
    /\ capOutClosed' = TRUE
    /\ capPc' = "closing"
    /\ UNCHANGED <<capKind, capSource, capOut, capHandleOpen, capCtxDone,
                   capConsumerOn>>
    /\ UNCHANGED <<flowVars, selVars, accVars, dispVars, memVars, extVars>>

\* FileReader: select { case out <- packet: }
FileSelectSend ==
    /\ capKind = "file"
    /\ capPc = "select"
    /\ capOut < packetChanCap
    /\ capOut' = capOut + 1
    /\ capPc' = "range"
    /\ UNCHANGED <<capKind, capSource, capOutClosed, capHandleOpen,
                   capCtxDone, capConsumerOn>>
    /\ UNCHANGED <<flowVars, selVars, accVars, dispVars, memVars, extVars>>

\* Both readers: select { case <-ctx.Done(): return }; the deferred
\* close(out) runs first.
SelectDone ==
    /\ capPc = "select"
    /\ capCtxDone
    /\ capOutClosed' = TRUE
    /\ capPc' = "closing"
    /\ UNCHANGED <<capKind, capSource, capOut, capHandleOpen, capCtxDone,
                   capConsumerOn>>
    /\ UNCHANGED <<flowVars, selVars, accVars, dispVars, memVars, extVars>>

\* DeviceReader: select { case pkt, ok := <-packetChan: } with a packet;
\* the goroutine goes on to out <- pkt.
DeviceSelectReceive ==
    /\ capKind = "device"
    /\ capPc = "select"
    /\ capPc' = "send"
    /\ UNCHANGED <<capKind, capSource, capOut, capOutClosed, capHandleOpen,
                   capCtxDone, capConsumerOn>>
    /\ UNCHANGED <<flowVars, selVars, accVars, dispVars, memVars, extVars>>

\* DeviceReader: packetChan is closed (!ok): return.
DeviceSourceClosed ==
    /\ capKind = "device"
    /\ capPc = "select"
    /\ capOutClosed' = TRUE
    /\ capPc' = "closing"
    /\ UNCHANGED <<capKind, capSource, capOut, capHandleOpen, capCtxDone,
                   capConsumerOn>>
    /\ UNCHANGED <<flowVars, selVars, accVars, dispVars, memVars, extVars>>

\* DeviceReader: out <- pkt, outside the select: waits while out is full.
DeviceSend ==
    /\ capKind = "device"
    /\ capPc = "send"
    /\ capOut < packetChanCap
    /\ capOut' = capOut + 1
    /\ capPc' = "select"
    /\ UNCHANGED <<capKind, capSource, capOutClosed, capHandleOpen,
                   capCtxDone, capConsumerOn>>
    /\ UNCHANGED <<flowVars, selVars, accVars, dispVars, memVars, extVars>>

\* defer handle.Close(), after close(out).
HandleClose ==
    /\ capPc = "closing"
    /\ capHandleOpen' = FALSE
    /\ capPc' = "done"
    /\ UNCHANGED <<capKind, capSource, capOut, capOutClosed, capCtxDone,
                   capConsumerOn>>
    /\ UNCHANGED <<flowVars, selVars, accVars, dispVars, memVars, extVars>>

CapNext ==
    \/ Cancel
    \/ ConsumerReceives
    \/ ConsumerStops
    \/ FileNextPacket
    \/ FileEOF
    \/ FileSelectSend
    \/ SelectDone
    \/ DeviceSelectReceive
    \/ DeviceSourceClosed
    \/ DeviceSend
    \/ HandleClose

\* The capture goroutine runs whenever it can: reading the file, sending
\* when out has room, closing; a select entered again and again with ctx
\* cancelled takes the ctx.Done() case (the Go runtime picks among the
\* ready cases at random). Nothing is assumed of the consumer, of the
\* arrival of packets on the device or of the cancellation.
CapFairness ==
    /\ WF_vars(FileNextPacket)
    /\ WF_vars(FileEOF)
    /\ WF_vars(FileSelectSend)
    /\ WF_vars(DeviceSend)
    /\ WF_vars(HandleClose)
    /\ SF_vars(SelectDone)

CapSpec == CapInit /\ [][CapNext]_vars /\ CapFairness

\* ------------------------------------------- claims on the capture task

\* C14: for the file reader and for the device reader, once the context
\* is cancelled the capture task eventually closes its output channel and
\* releases the capture handle, also when the consumer of the packet channel
\* has stopped receiving.
C14_CancelReleases ==
    capCtxDone ~> (capOutClosed /\ ~capHandleOpen)

\* The capture task waits at a send on the full channel out, outside any
\* select, with the context cancelled and no consumer.
CaptureStuck ==
    /\ capPc = "send"
    /\ capOut = packetChanCap
    /\ capCtxDone
    /\ ~capConsumerOn
    /\ ~capOutClosed
    /\ capHandleOpen

\* The file reader alone does as C14 says.
FileCancelReleases ==
    (capKind = "file" /\ capCtxDone) ~> (capOutClosed /\ ~capHandleOpen)

\* -------------------------------------------------------------- mempool

\* Largest maxPoolSize_bytes and chunkSize_bytes tried (the smallest is -1).
MaxPoolSize == 3
MaxChunkSize == 2
\* Longest payload of one write.
MaxWrite == 2
\* Number of payload bytes handed to the buffers in one run.
MaxMemBytes == 3

\* A byte slice of size zero bytes: make([]byte, size), or a chunk that
\* getChunk has cleared.
ZeroChunk(size) == [i \in 1..size |-> 0]

\* MakeBufferPool, were the number of chunks rounded up.
MakeBufferPool_RoundUp(maxPoolSize_bytes, chunkSize_bytes) ==
    IF chunkSize_bytes < 1 THEN [made |-> TRUE, err |-> "invalid chunkSize_bytes"]
    ELSE IF maxPoolSize_bytes < chunkSize_bytes
    THEN [made |-> TRUE, err |-> "invalid maxPoolSize_bytes"]
    ELSE LET numChunks == (maxPoolSize_bytes + chunkSize_bytes - 1)
                              \div chunkSize_bytes IN
         [made |-> TRUE, err |-> "nil",
          chunks |-> [count \in 1..numChunks |-> chunkSize_bytes],
          cap |-> numChunks,
          chunkSize_bytes |-> chunkSize_bytes]

\* MakeBufferPool; chunks holds the lengths of the free chunks in the
\* channel, cap the channel's capacity.
MakeBufferPool(maxPoolSize_bytes, chunkSize_bytes) ==
    IF chunkSize_bytes < 1 THEN [made |-> TRUE, err |-> "invalid chunkSize_bytes"]
    ELSE IF maxPoolSize_bytes < chunkSize_bytes
    THEN [made |-> TRUE, err |-> "invalid maxPoolSize_bytes"]
    ELSE LET numChunks == maxPoolSize_bytes \div chunkSize_bytes IN
         [made |-> TRUE, err |-> "nil",
          chunks |-> [count \in 1..numChunks |-> chunkSize_bytes],
          cap |-> numChunks,
          chunkSize_bytes |-> chunkSize_bytes]

\* bufferPool.getChunk: select { case result := <-pool.chunks: ...;
\* default: return nil }; nil tells the nil slice from a chunk.
getChunk(pool) ==
    IF pool.chunks = <<>> THEN [nil |-> TRUE, result |-> <<>>, pool |-> pool]
    ELSE [nil |-> FALSE, result |-> ZeroChunk(Head(pool.chunks)),
          pool |-> [pool EXCEPT !.chunks = Tail(pool.chunks)]]

\* The select of release, were the channel without bound.
trySend_NoBound(pool, size) ==
    [sent |-> TRUE, pool |-> [pool EXCEPT !.chunks = Append(pool.chunks, size)]]

\* The select of release for one chunk of size bytes:
\* select { case pool.chunks <- chunk: continue; default: return }
trySend(pool, size) ==
    IF Len(pool.chunks) < pool.cap
    THEN [sent |-> TRUE,
          pool |-> [pool EXCEPT !.chunks = Append(pool.chunks, size)]]
    ELSE [sent |-> FALSE, pool |-> pool]

\* bufferPool.release: the loop over chunks, left at the first chunk the
\* pool has no room for.
RECURSIVE release(_, _)
release(pool, chunks) ==
    IF chunks = <<>> THEN pool
    ELSE LET s == trySend(pool, Len(Head(chunks))) IN
         IF s.sent THEN release(s.pool, Tail(chunks)) ELSE pool

\* newBuffer
newBuffer == [made |-> TRUE, chunks |-> <<>>, readOffset |-> 0, writeOffset |-> 0]

\* buffer.Bytes
Bytes(buf) ==
    LET n == Len(buf.chunks)
        part(idx) ==
            LET chunk == buf.chunks[idx] IN
            IF n = 1 THEN SubSeq(chunk, buf.readOffset + 1, buf.writeOffset)
            ELSE IF idx = 1 THEN SubSeq(chunk, buf.readOffset + 1, Len(chunk))
            ELSE IF idx = n THEN SubSeq(chunk, 1, buf.writeOffset)
            ELSE chunk
        cat[idx \in 0..n] == IF idx = 0 THEN <<>> ELSE cat[idx - 1] \o part(idx)
    IN  cat[n]

\* buffer.Len
BufLen(buf, pool) ==
    LET numChunks == Len(buf.chunks) IN
    IF numChunks = 0 THEN 0
    ELSE LET bytesAllocated == pool.chunkSize_bytes * numChunks
             bytesAlreadyRead == buf.readOffset
             bytesNotYetWritten == pool.chunkSize_bytes - buf.writeOffset
         IN  bytesAllocated - bytesAlreadyRead - bytesNotYetWritten

\* The loop of grow: up to chunksNeeded chunks are taken from the pool and
\* appended to chunks, stopping when the pool is empty.
RECURSIVE obtain(_, _, _)
obtain(chunks, pool, chunksNeeded) ==
    IF chunksNeeded = 0
    THEN [chunks |-> chunks, pool |-> pool, chunksObtained |-> 0]
    ELSE LET g == getChunk(pool) IN
         IF g.nil
         THEN [chunks |-> chunks, pool |-> pool, chunksObtained |-> 0]
         ELSE LET r == obtain(Append(chunks, g.result), g.pool, chunksNeeded - 1)
              IN  [r EXCEPT !.chunksObtained = r.chunksObtained + 1]

\* buffer.grow(n); chunkIdx is 0-based as in the code.
grow(buf, pool, n) ==
    LET has == Len(buf.chunks) > 0
        chunkIdx == IF has THEN Len(buf.chunks) - 1 ELSE 0
        offset == IF has THEN buf.writeOffset ELSE 0
        availableBytes == IF has THEN pool.chunkSize_bytes - buf.writeOffset ELSE 0
        spaceNeeded == n - availableBytes
    IN  IF spaceNeeded <= 0
        THEN [buf |-> buf, pool |-> pool, chunkIdx |-> chunkIdx,
              offset |-> offset, availableBytes |-> availableBytes]
        ELSE LET chunksNeeded == (spaceNeeded + pool.chunkSize_bytes - 1)
                                     \div pool.chunkSize_bytes
                 o == obtain(buf.chunks, pool, chunksNeeded)
                 full == offset = pool.chunkSize_bytes
             IN  [buf |-> [buf EXCEPT !.chunks = o.chunks],
                  pool |-> o.pool,
                  chunkIdx |-> IF full THEN chunkIdx + 1 ELSE chunkIdx,
                  offset |-> IF full THEN 0 ELSE offset,
                  availableBytes |->
                      availableBytes + o.chunksObtained * pool.chunkSize_bytes]

\* copy, were it to start at the head of the chunk.
CopyInto_AtHead(chunk, offset, src) ==
    [i \in 1..Len(chunk) |-> IF i <= Len(src) THEN src[i] ELSE chunk[i]]

\* copy(chunk[offset:], src): the chunk after the copy.
CopyInto(chunk, offset, src) ==
    [i \in 1..Len(chunk) |->
        IF i > offset /\ i <= offset + Len(src) THEN src[i - offset] ELSE chunk[i]]

\* The copy loop of Write, from chunk chunkIdx (0-based) at offset on.
RECURSIVE writeLoop(_, _, _, _, _)
writeLoop(chunks, chunkIdx, offset, p, totalBytesWritten) ==
    LET chunk == chunks[chunkIdx + 1]
        bytesWritten == Min(Len(chunk) - offset, Len(p) - totalBytesWritten)
        src == SubSeq(p, totalBytesWritten + 1, totalBytesWritten + bytesWritten)
        chunks1 == [chunks EXCEPT ![chunkIdx + 1] = CopyInto(chunk, offset, src)]
    IN  IF chunkIdx + 1 = Len(chunks)
        THEN [chunks |-> chunks1, writeOffset |-> offset + bytesWritten,
              n |-> totalBytesWritten + bytesWritten]
        ELSE writeLoop(chunks1, chunkIdx + 1, 0, p,
                       totalBytesWritten + bytesWritten)

\* Write, were a short write reported as a full one.
Write_FullCount(buf, pool, p) ==
    LET g == grow(buf, pool, Len(p)) IN
    IF Len(p) = 0 \/ g.availableBytes = 0
    THEN [buf |-> g.buf, pool |-> g.pool, n |-> Len(p), err |-> "nil"]
    ELSE LET w == writeLoop(g.buf.chunks, g.chunkIdx, g.offset, p, 0) IN
         [buf |-> [g.buf EXCEPT !.chunks = w.chunks,
                                !.writeOffset = w.writeOffset],
          pool |-> g.pool, n |-> Len(p), err |-> "nil"]

\* buffer.Write(p)
Write(buf, pool, p) ==
    IF Len(p) = 0 THEN [buf |-> buf, pool |-> pool, n |-> 0, err |-> "nil"]
    ELSE LET g == grow(buf, pool, Len(p))
             err == IF g.availableBytes < Len(p) THEN "ErrEmptyPool" ELSE "nil"
         IN  IF g.availableBytes = 0
             THEN [buf |-> g.buf, pool |-> g.pool, n |-> 0, err |-> err]
             ELSE LET w == writeLoop(g.buf.chunks, g.chunkIdx, g.offset, p, 0)
                  IN  [buf |-> [g.buf EXCEPT !.chunks = w.chunks,
                                             !.writeOffset = w.writeOffset],
                       pool |-> g.pool, n |-> w.n, err |-> err]

\* The readers handed to ReadFrom: a MemViewReader, which reports io.EOF
\* only on a read after its last byte; a reader that reports io.EOF
\* together with its last bytes; a reader that fails after its bytes.
ReaderKinds == {"memview", "eofWithData", "failing"}

\* r.Read(out) with room bytes of space: the error returned with the
\* count bytes read of the remaining data.
ReadError(kind, remaining, count) ==
    CASE kind = "memview" -> IF remaining = 0 THEN "EOF" ELSE "nil"
      [] kind = "eofWithData" -> IF count = remaining THEN "EOF" ELSE "nil"
      [] OTHER -> IF remaining = 0 THEN "errRead" ELSE "nil"

\* The deferred function of ReadFrom, left out.
ReadFromCleanup_None(buf, pool) == [buf |-> buf, pool |-> pool]

\* The deferred function of ReadFrom: an unused last chunk goes back to
\* the pool.
ReadFromCleanup(buf, pool) ==
    LET numChunks == Len(buf.chunks) IN
    IF numChunks > 0 /\ buf.writeOffset = 0
    THEN [buf |-> [buf EXCEPT !.chunks = SubSeq(buf.chunks, 1, numChunks - 1),
                              !.writeOffset = pool.chunkSize_bytes],
          pool |-> release(pool, <<buf.chunks[numChunks]>>)]
    ELSE [buf |-> buf, pool |-> pool]

\* The loop of ReadFrom; data is what the reader still holds.
RECURSIVE readLoop(_, _, _, _, _)
readLoop(buf, pool, data, kind, totalBytesCopied) ==
    LET needSpace == Len(buf.chunks) = 0
                        \/ buf.writeOffset = pool.chunkSize_bytes
        g == grow(buf, pool, pool.chunkSize_bytes)
    IN  IF needSpace /\ g.availableBytes = 0
        THEN [buf |-> g.buf, pool |-> g.pool, n |-> totalBytesCopied,
              err |-> "ErrEmptyPool"]
        ELSE LET buf1 == IF needSpace THEN [g.buf EXCEPT !.writeOffset = 0]
                         ELSE buf
                 pool1 == IF needSpace THEN g.pool ELSE pool
                 last1 == Len(buf1.chunks)
                 bytesCopied == Min(pool.chunkSize_bytes - buf1.writeOffset,
                                    Len(data))
                 rerr == ReadError(kind, Len(data), bytesCopied)
                 buf2 == [buf1 EXCEPT
                            !.chunks[last1] =
                                CopyInto(buf1.chunks[last1], buf1.writeOffset,
                                         SubSeq(data, 1, bytesCopied)),
                            !.writeOffset = buf1.writeOffset + bytesCopied]
             IN  IF rerr = "EOF"
                 THEN [buf |-> buf2, pool |-> pool1,
                       n |-> totalBytesCopied + bytesCopied, err |-> "nil"]
                 ELSE IF rerr # "nil"
                 THEN [buf |-> buf2, pool |-> pool1,
                       n |-> totalBytesCopied + bytesCopied, err |-> rerr]
                 ELSE readLoop(buf2, pool1,
                               SubSeq(data, bytesCopied + 1, Len(data)), kind,
                               totalBytesCopied + bytesCopied)

\* buffer.ReadFrom(r)
ReadFrom(buf, pool, data, kind) ==
    LET r == readLoop(buf, pool, data, kind, 0)
        c == ReadFromCleanup(r.buf, r.pool)
    IN  [buf |-> c.buf, pool |-> c.pool, n |-> r.n, err |-> r.err]

\* Release, were the chunks kept by the buffer.
Release_KeepChunks(buf, pool) ==
    [buf |-> buf, pool |-> release(pool, buf.chunks)]

\* buffer.Release
Release(buf, pool) ==
    [buf |-> [buf EXCEPT !.chunks = <<>>, !.readOffset = 0],
     pool |-> release(pool, buf.chunks)]

\* buffer.repOk: the assertions hold.
repOk(buf, pool) ==
    /\ \A k \in DOMAIN buf.chunks : Len(buf.chunks[k]) = pool.chunkSize_bytes
    /\ Len(buf.chunks) = 0 => buf.readOffset = 0
    /\ Len(buf.chunks) > 0 => buf.readOffset < pool.chunkSize_bytes
    /\ Len(buf.chunks) = 1 => buf.readOffset < buf.writeOffset
    /\ Len(buf.chunks) > 0 => buf.writeOffset > 0

\* ------------------------------------------- callers of one bufferPool

\* Chunks the callers release that the pool never issued.
MaxForeign == 1

\* getChunk called by goroutine c: one receive with a default case.
CallerGetChunk(c) ==
    /\ poolCallers[c].pc = "idle"
    /\ LET g == getChunk(memPool) IN
       /\ memPool' = g.pool
       /\ poolCallers' = [poolCallers EXCEPT
              ![c].hand = IF g.nil THEN @ ELSE @ + 1,
              ![c].result = IF g.nil THEN "nil" ELSE "chunk"]
    /\ UNCHANGED <<memArgs, bufVars, poolForeign>>
    /\ UNCHANGED <<flowVars, selVars, accVars, dispVars, capVars, extVars>>

\* Goroutine c calls release with own of the chunks it holds and foreign
\* chunks it made itself.
CallerRelease(c, own, foreign) ==
    /\ poolCallers[c].pc = "idle"
    /\ own <= poolCallers[c].hand
    /\ own + foreign > 0
    /\ poolForeign + foreign <= MaxForeign
    /\ poolForeign' = poolForeign + foreign
    /\ poolCallers' = [poolCallers EXCEPT
           ![c].pc = "release",
           ![c].hand = @ - own,
           ![c].todo = own + foreign,
           ![c].result = "-",
           ![c].dropped = 0]
    /\ UNCHANGED <<memArgs, memPool, bufVars>>
    /\ UNCHANGED <<flowVars, selVars, accVars, dispVars, capVars, extVars>>

\* One turn of the loop of release in goroutine c: the chunk is sent, or
\* the default case returns and leaves the remaining chunks to the
\* garbage collector.
CallerReleaseStep(c) ==
    /\ poolCallers[c].pc = "release"
    /\ LET s == trySend(memPool, memPool.chunkSize_bytes)
           left == poolCallers[c].todo - 1
       IN
       /\ memPool' = s.pool
       /\ poolCallers' = [poolCallers EXCEPT
              ![c].pc = IF s.sent /\ left > 0 THEN "release" ELSE "idle",
              ![c].todo = IF s.sent THEN left ELSE 0,
              ![c].result = IF s.sent THEN "sent" ELSE "default",
              ![c].dropped = IF s.sent THEN 0 ELSE poolCallers[c].todo]
    /\ UNCHANGED <<memArgs, bufVars, poolForeign>>
    /\ UNCHANGED <<flowVars, selVars, accVars, dispVars, capVars, extVars>>

PoolInit ==
    /\ FlowInit /\ SelIdle /\ AccIdle /\ DispInit /\ CapIdle /\ ExtIdle
    /\ BufIdle /\ CallersIdle
    /\ \E m \in 1..MaxPoolSize, s \in 1..MaxChunkSize :
          /\ m >= s
          /\ memArgs = [maxPoolSize_bytes |-> m, chunkSize_bytes |-> s]
          /\ memPool = MakeBufferPool(m, s)

PoolNext ==
    \E c \in 1..NumCallers :
        \/ CallerGetChunk(c)
        \/ \E own \in 0..MaxPoolSize, foreign \in 0..MaxForeign :
                CallerRelease(c, own, foreign)
        \/ CallerReleaseStep(c)

PoolSpec == PoolInit /\ [][PoolNext]_vars

\* What goroutine c does next inside getChunk or release.
CallerStep(c) ==
    IF poolCallers[c].pc = "release" THEN CallerReleaseStep(c)
    ELSE CallerGetChunk(c)

\* In every state each goroutine can take its step, and what was refused
\* was dropped.
CallersNeverWait ==
    /\ \A c \in 1..NumCallers : ENABLED CallerStep(c)
    /\ Len(memPool.chunks) <= memPool.cap
    /\ \A c \in 1..NumCallers :
          /\ poolCallers[c].result = "default"
                => poolCallers[c].pc = "idle" /\ poolCallers[c].dropped > 0
                   /\ poolCallers[c].todo = 0
          /\ poolCallers[c].result = "sent" => poolCallers[c].dropped = 0

\* Every step is the select the code writes.
CallerStepsAsSelect ==
    [][\A c \in 1..NumCallers :
          /\ (CallerGetChunk(c) /\ memPool.chunks = <<>>)
                => poolCallers'[c].result = "nil" /\ UNCHANGED memPool
                   /\ poolCallers'[c].hand = poolCallers[c].hand
          /\ (CallerGetChunk(c) /\ memPool.chunks # <<>>)
                => poolCallers'[c].result = "chunk"
                   /\ Len(memPool'.chunks) = Len(memPool.chunks) - 1
          /\ (CallerReleaseStep(c) /\ Len(memPool.chunks) = memPool.cap)
                => poolCallers'[c].result = "default" /\ UNCHANGED memPool
                   /\ poolCallers'[c].dropped = poolCallers[c].todo
          /\ (CallerReleaseStep(c) /\ Len(memPool.chunks) < memPool.cap)
                => poolCallers'[c].result = "sent"
                   /\ Len(memPool'.chunks) = Len(memPool.chunks) + 1]_vars

\* C15: whatever the other callers have done, a goroutine in getChunk or
\* in the loop of release can take its step (neither waits for the
\* channel); getChunk on an empty pool returns nil and takes nothing;
\* release on a full pool sends nothing and drops the chunks it still
\* has; the pool never holds more than its capacity.
C15_PoolNeverBlocks == []CallersNeverWait /\ CallerStepsAsSelect

\* One caller's release has been refused by the full pool and has
\* dropped a chunk, the other's getChunk has found the pool empty and is
\* now in release itself.
C15_Witness ==
    /\ poolCallers[1].result = "default"
    /\ poolCallers[1].dropped > 0
    /\ Len(memPool.chunks) = memPool.cap
    /\ \E c \in 1..NumCallers : poolCallers[c].pc = "idle"
                                  /\ poolCallers[c].result = "nil"

\* ------------------------------------------- buffers sharing one pool

\* The next n payload bytes; no two bytes written in a run are equal, and
\* none is the zero of a cleared chunk.
Payload(n) == [i \in 1..n |-> memNext + i]

\* The record of one call on a buffer: the count and the error it
\* returned.
Called(op, n, err) == [op |-> op, n |-> n, err |-> err]

PoolReady == memPool.made /\ memPool.err = "nil"

\* pool.NewBuffer(); the buffers are numbered as they are made.
NewBuffer(b) ==
    /\ PoolReady
    /\ ~memBufs[b].made
    /\ \A a \in 1..(b - 1) : memBufs[a].made
    /\ memBufs' = [memBufs EXCEPT ![b] = newBuffer]
    /\ memLast' = Called("NewBuffer", 0, "nil")
    /\ UNCHANGED <<memArgs, memPool, memNext, memExpected, memFailed>>
    /\ UNCHANGED callerVars
    /\ UNCHANGED <<flowVars, selVars, accVars, dispVars, capVars, extVars>>

\* buf.Write(p) on buffer b with a payload of n bytes.
WriteCall(b, n) ==
    /\ PoolReady
    /\ memBufs[b].made
    /\ memNext + n <= MaxMemBytes
    /\ LET w == Write(memBufs[b], memPool, Payload(n)) IN
       /\ memBufs' = [memBufs EXCEPT ![b] = w.buf]
       /\ memPool' = w.pool
       /\ memNext' = memNext + n
       /\ memLast' = Called("Write", w.n, w.err)
    /\ UNCHANGED memArgs
    /\ UNCHANGED callerVars
    /\ UNCHANGED <<flowVars, selVars, accVars, dispVars, capVars, extVars>>

BufWrite(b, n) == WriteCall(b, n) /\ UNCHANGED <<memExpected, memFailed>>

\* buf.ReadFrom(r) on buffer b with a reader of n bytes.
BufReadFrom(b, n, kind) ==
    /\ PoolReady
    /\ memBufs[b].made
    /\ memNext + n <= MaxMemBytes
    /\ LET r == ReadFrom(memBufs[b], memPool, Payload(n), kind) IN
       /\ memBufs' = [memBufs EXCEPT ![b] = r.buf]
       /\ memPool' = r.pool
       /\ memNext' = memNext + n
       /\ memLast' = Called("ReadFrom", r.n, r.err)
    /\ UNCHANGED <<memArgs, memExpected, memFailed>>
    /\ UNCHANGED callerVars
    /\ UNCHANGED <<flowVars, selVars, accVars, dispVars, capVars, extVars>>

\* buf.Bytes() on buffer b; the view returned is Bytes(memBufs[b]).
BufBytes(b) ==
    /\ PoolReady
    /\ memBufs[b].made
    /\ memLast' = Called("Bytes", 0, "nil")
    /\ UNCHANGED <<memArgs, memPool, memBufs, memNext, memExpected, memFailed>>
    /\ UNCHANGED callerVars
    /\ UNCHANGED <<flowVars, selVars, accVars, dispVars, capVars, extVars>>

\* buf.Release() on buffer b; n is the number of chunks the pool gained.
BufRelease(b) ==
    /\ PoolReady
    /\ memBufs[b].made
    /\ LET r == Release(memBufs[b], memPool) IN
       /\ memBufs' = [memBufs EXCEPT ![b] = r.buf]
       /\ memPool' = r.pool
       /\ memLast' = Called("Release",
                            Len(r.pool.chunks) - Len(memPool.chunks), "nil")
    /\ UNCHANGED <<memArgs, memNext, memExpected, memFailed>>
    /\ UNCHANGED callerVars
    /\ UNCHANGED <<flowVars, selVars, accVars, dispVars, capVars, extVars>>

\* MakeBufferPool(maxPoolSize_bytes, chunkSize_bytes) on the arguments
\* chosen.
MakePool ==
    /\ ~memPool.made
    /\ memPool' = MakeBufferPool(memArgs.maxPoolSize_bytes,
                                 memArgs.chunkSize_bytes)
    /\ UNCHANGED <<memArgs, bufVars>>
    /\ UNCHANGED callerVars
    /\ UNCHANGED <<flowVars, selVars, accVars, dispVars, capVars, extVars>>

\* The arguments of MakeBufferPool are chosen, the pool is not made yet.
MemInit ==
    /\ FlowInit /\ SelIdle /\ AccIdle /\ DispInit /\ CapIdle /\ ExtIdle
    /\ BufIdle /\ CallersIdle
    /\ memPool = NoPool
    /\ \E m \in (-1)..MaxPoolSize, s \in (-1)..MaxChunkSize :
          memArgs = [maxPoolSize_bytes |-> m, chunkSize_bytes |-> s]

MemNext ==
    \/ MakePool
    \/ \E b \in 1..NumBuffers :
        \/ NewBuffer(b)
        \/ \E n \in 0..MaxWrite : BufWrite(b, n)
        \/ \E n \in 0..MaxWrite, kind \in ReaderKinds : BufReadFrom(b, n, kind)
        \/ BufBytes(b)
        \/ BufRelease(b)

MemSpec == MemInit /\ [][MemNext]_vars

\* The buffers that have been made.
Made == {b \in 1..NumBuffers : memBufs[b].made}

\* buffer.repOk passes for every buffer.
AllRepOk == PoolReady => \A b \in Made : repOk(memBufs[b], memPool)

\* The number of chunks held by buffers 1..b.
RECURSIVE HeldUpTo(_)
HeldUpTo(b) ==
    IF b = 0 THEN 0
    ELSE HeldUpTo(b - 1)
            + (IF memBufs[b].made THEN Len(memBufs[b].chunks) ELSE 0)

\* Every chunk is with the pool or with one buffer.
ChunksConserved ==
    PoolReady => Len(memPool.chunks) + HeldUpTo(NumBuffers) = memPool.cap

\* Write on buffer b with the observer's record of what was passed.
TrackedWrite(b, n) ==
    /\ WriteCall(b, n)
    /\ memExpected' = [memExpected EXCEPT ![b] =
           IF memFailed[b] THEN @
           ELSE [passed |-> @.passed \o Payload(n), cut |-> Len(@.passed)]]
    /\ memFailed' = [memFailed EXCEPT
           ![b] = @ \/ memLast'.err = "ErrEmptyPool"]

\* NewBuffer, Write and Bytes on the buffers of one pool, in any order.
WriteNext ==
    \/ MakePool
    \/ \E b \in 1..NumBuffers :
        \/ NewBuffer(b)
        \/ \E n \in 0..MaxWrite : TrackedWrite(b, n)
        \/ BufBytes(b)

WriteSpec == MemInit /\ [][WriteNext]_vars

\* C16: under any interleaving of NewBuffer, Write and Bytes on the
\* buffers of one pool, Bytes of each buffer is the concatenation of the
\* payloads passed to its writes if none returned ErrEmptyPool, and
\* otherwise that concatenation cut inside the payload of the first write
\* that returned ErrEmptyPool.
C16_BytesAreWrites ==
    PoolReady =>
        \A b \in Made :
            LET got == Bytes(memBufs[b])
                passed == memExpected[b].passed
            IN  /\ Len(got) <= Len(passed)
                /\ got = SubSeq(passed, 1, Len(got))
                /\ ~memFailed[b] => got = passed
                /\ memFailed[b] => /\ Len(got) >= memExpected[b].cut
                                   /\ Len(got) < Len(passed)

\* Two buffers share the pool; the first holds all its writes, the
\* second has had a write cut short by the empty pool and was asked for
\* its bytes.
C16_Witness ==
    /\ {1, 2} \subseteq Made
    /\ ~memFailed[1] /\ Bytes(memBufs[1]) # <<>>
    /\ memFailed[2] /\ Bytes(memBufs[2]) # <<>>
    /\ memLast.op = "Bytes"

\* The bytes buffer buf can still take: the rest of its last chunk and
\* every chunk the pool can give.
Room(buf, pool) ==
    (IF buf.chunks = <<>> THEN 0 ELSE pool.chunkSize_bytes - buf.writeOffset)
        + Len(pool.chunks) * pool.chunkSize_bytes

\* C17: every Write(p) stores the first Min(len(p), room) bytes of p after
\* the bytes the buffer held, where room is what the buffer's last chunk
\* and the chunks obtained from the pool can hold; it returns that count,
\* with ErrEmptyPool exactly when the pool ran out before all of p was
\* stored, and len(p) with a nil error otherwise.
C17_PartialWrite ==
    [][\A b \in 1..NumBuffers, n \in 0..MaxWrite :
          (memLast'.op = "Write" /\ BufWrite(b, n)) =>
              LET room == Room(memBufs[b], memPool)
                  stored == Min(n, room)
              IN  /\ memLast'.n = stored
                  /\ memLast'.err = (IF n > room THEN "ErrEmptyPool" ELSE "nil")
                  /\ Bytes(memBufs'[b])
                        = Bytes(memBufs[b]) \o SubSeq(Payload(n), 1, stored)
                  /\ n <= room => memLast'.n = n /\ memLast'.err = "nil"]_vars

\* A write has just stored a part of its payload and returned
\* ErrEmptyPool, on a buffer that held bytes already (the other buffers
\* hold none).
C17_Witness ==
    /\ memLast.op = "Write"
    /\ memLast.err = "ErrEmptyPool"
    /\ memLast.n > 0
    /\ \E b \in Made :
          /\ Len(Bytes(memBufs[b])) > memLast.n
          /\ \A a \in Made \ {b} : memBufs[a].chunks = <<>>

\* The calls on a buffer.
BufferOps == {"Write", "ReadFrom", "Bytes", "Release"}

\* The last chunk of buf holds at least one byte of its contents.
NoTrailingUnusedSlab(buf) ==
    buf.chunks # <<>> =>
        /\ buf.writeOffset > 0
        /\ buf.chunks[Len(buf.chunks)][buf.writeOffset] # 0

\* Every chunk of buf but the last has the pool's chunk size and holds
\* written bytes from the read offset (in the first chunk) or from its
\* head up to its end.
NonTerminalSlabsFull(buf, pool) ==
    \A k \in 1..(Len(buf.chunks) - 1) :
        /\ Len(buf.chunks[k]) = pool.chunkSize_bytes
        /\ \A i \in ((IF k = 1 THEN buf.readOffset ELSE 0) + 1)
                        ..pool.chunkSize_bytes :
              buf.chunks[k][i] # 0

\* (slab-count * chunk-size) - read-offset - (chunk-size - write-offset)
LenFormula(buf, pool) ==
    Len(buf.chunks) * pool.chunkSize_bytes
        - buf.readOffset - (pool.chunkSize_bytes - buf.writeOffset)

\* C18 as stated: after every call of Write, ReadFrom, Bytes or Release
\* each buffer has no unused last chunk, has every other chunk full, and
\* has Len() equal to the formula.
C18_LenFormulaAlways ==
    (PoolReady /\ memLast.op \in BufferOps) =>
        \A b \in Made :
            /\ NoTrailingUnusedSlab(memBufs[b])
            /\ NonTerminalSlabsFull(memBufs[b], memPool)
            /\ BufLen(memBufs[b], memPool) = LenFormula(memBufs[b], memPool)

\* C18 amended: after every call of Write, ReadFrom, Bytes or Release
\* (those ending with ErrEmptyPool too) each buffer passes repOk, has no
\* unused last chunk, has every other chunk full, and has Len() equal to
\* the number of bytes of Bytes(), which is the formula when the buffer
\* holds a chunk and 0 when it holds none.
C18_BufferInvariants ==
    (PoolReady /\ memLast.op \in BufferOps) =>
        \A b \in Made :
            /\ repOk(memBufs[b], memPool)
            /\ NoTrailingUnusedSlab(memBufs[b])
            /\ NonTerminalSlabsFull(memBufs[b], memPool)
            /\ BufLen(memBufs[b], memPool) = Len(Bytes(memBufs[b]))
            /\ memBufs[b].chunks # <<>> =>
                  BufLen(memBufs[b], memPool)
                      = LenFormula(memBufs[b], memPool)
            /\ memBufs[b].chunks = <<>> => BufLen(memBufs[b], memPool) = 0

\* A ReadFrom has just ended with ErrEmptyPool on a buffer that holds
\* several chunks, while another buffer holds none.
C18_Witness ==
    /\ memLast.op = "ReadFrom"
    /\ memLast.err = "ErrEmptyPool"
    /\ memLast.n >= 2
    /\ \E b \in Made : Len(memBufs[b].chunks) >= 2
    /\ \E b \in Made : memBufs[b].chunks = <<>>

\* What a caller can see of a call of Write: the results and the buffer's
\* contents.
Seen(w) ==
    [n |-> w.n, err |-> w.err, bytes |-> Bytes(w.buf),
     len |-> BufLen(w.buf, w.pool), held |-> Len(w.buf.chunks),
     pool |-> w.pool]

\* C19: every Release of a buffer appends each chunk the buffer holds to
\* the pool and leaves the buffer without chunks, with read offset 0 and
\* no bytes; a Release of a buffer without chunks (a second Release)
\* changes neither the pool nor the buffer; and every Write on a buffer
\* without chunks returns and stores what it would on a new buffer of the
\* same pool.
C19_ReleaseClears ==
    [][\A b \in 1..NumBuffers, n \in 0..MaxWrite :
           /\ (memLast'.op = "Release" /\ BufRelease(b)) =>
                 /\ memPool'.chunks
                       = memPool.chunks
                            \o [k \in 1..Len(memBufs[b].chunks) |->
                                   Len(memBufs[b].chunks[k])]
                 /\ memLast'.n = Len(memBufs[b].chunks)
                 /\ memBufs'[b].chunks = <<>>
                 /\ memBufs'[b].readOffset = 0
                 /\ Bytes(memBufs'[b]) = <<>>
                 /\ BufLen(memBufs'[b], memPool') = 0
                 /\ memBufs[b].chunks = <<>> =>
                       /\ memPool' = memPool
                       /\ memBufs' = memBufs
           /\ (memLast'.op = "Write" /\ BufWrite(b, n)
                    /\ memBufs[b].chunks = <<>>) =>
                 /\ Seen(Write(memBufs[b], memPool, Payload(n)))
                       = Seen(Write(newBuffer, memPool, Payload(n)))
                 /\ memLast'.n = Write(newBuffer, memPool, Payload(n)).n
                 /\ memLast'.err = Write(newBuffer, memPool, Payload(n)).err
                 /\ Bytes(memBufs'[b])
                       = Bytes(Write(newBuffer, memPool, Payload(n)).buf)
      ]_vars

\* The only buffer made has been written and released (it holds no chunk
\* and its write offset is not that of a new buffer, nor the one ReadFrom
\* leaves after giving back an unused chunk), and the last call was a
\* Release that returned no chunk to the pool: a second Release.
C19_Witness ==
    /\ PoolReady
    /\ Made = {1}
    /\ memLast.op = "Release"
    /\ memLast.n = 0
    /\ memBufs[1].chunks = <<>>
    /\ memBufs[1].writeOffset > 0
    /\ memBufs[1].writeOffset < memPool.chunkSize_bytes
    /\ Len(memPool.chunks) = memPool.cap

\* C20: MakeBufferPool returns an error exactly when chunkSize_bytes < 1
\* or maxPoolSize_bytes < chunkSize_bytes; otherwise the pool it returns
\* holds, before any buffer takes a chunk, exactly the k chunks with
\* k * chunkSize_bytes <= maxPoolSize_bytes < (k + 1) * chunkSize_bytes,
\* each of chunkSize_bytes bytes, and never more than k later.
C20_PoolConstruction ==
    LET m == memArgs.maxPoolSize_bytes
        s == memArgs.chunkSize_bytes
    IN  memPool.made =>
        /\ memPool.err # "nil" <=> (s < 1 \/ m < s)
        /\ memPool.err = "nil" =>
              /\ memPool.chunkSize_bytes = s
              /\ memPool.cap * s <= m /\ m < (memPool.cap + 1) * s
              /\ \A k \in DOMAIN memPool.chunks : memPool.chunks[k] = s
              /\ Len(memPool.chunks) <= memPool.cap
              /\ Made = {} => Len(memPool.chunks) = memPool.cap
              /\ \A k \in 1..Len(memPool.chunks) :
                    Len(getChunk(memPool).result) = s

\* A pool whose size is not a multiple of the chunk size has been made
\* and nothing has been taken from it.
C20_Witness ==
    /\ memPool.made /\ memPool.err = "nil"
    /\ Made = {}
    /\ memArgs.chunkSize_bytes > 1
    /\ memArgs.maxPoolSize_bytes
          > Len(memPool.chunks) * memArgs.chunkSize_bytes

\* Pool construction has failed for a chunk size that is too large.
PoolTooSmall ==
    /\ memPool.made /\ memPool.err = "invalid maxPoolSize_bytes"
    /\ memArgs.chunkSize_bytes >= 1

\* ---------------------------------------------------------------- memview

\* Longest logical byte sequence of a view.
MaxViewLen == 3
\* Number of slabs a view is split into (some may be empty).
NumSlabs == 3
\* Longest pattern searched for.
MaxSepLen == 2

\* The byte values of views and patterns.
ViewBytes == {"a", "b"}

\* All byte sequences of length at most n.
BytesUpTo(n) == UNION {[1..k -> ViewBytes] : k \in 0..n}

\* The logical bytes of a view: its slabs one after the other.
RECURSIVE Flat(_)
Flat(buf) == IF buf = <<>> THEN <<>> ELSE Head(buf) \o Flat(Tail(buf))

\* haystack[from:] for a 0-based from.
From(haystack, from) == SubSeq(haystack, from + 1, Len(haystack))

\* sep occurs in bytes at 0-based offset at.
OccursAt(bytes, sep, at) ==
    /\ at >= 0
    /\ at + Len(sep) <= Len(bytes)
    /\ SubSeq(bytes, at + 1, at + Len(sep)) = sep

\* bytes.Index(s, sep) of the Go library: the first offset of sep in s, or -1.
BytesIndex(s, sep) ==
    LET at == {k \in 0..Len(s) : OccursAt(s, sep, k)} IN
    IF at = {} THEN -1 ELSE CHOOSE k \in at : \A j \in at : k <= j

\* The first loop of MemView.Index: the slab that holds offset start.
RECURSIVE FindStart(_, _, _, _)
FindStart(buf, i, currIndex, start) ==
    IF i >= Len(buf)
    THEN [startBuf |-> -1, startOffset |-> 0, currIndex |-> currIndex]
    ELSE LET lb == Len(buf[i + 1]) IN
         IF currIndex + lb - 1 < start
         THEN FindStart(buf, i + 1, currIndex + lb, start)
         ELSE [startBuf |-> i, startOffset |-> start - currIndex,
               currIndex |-> currIndex + (start - currIndex)]

\* "Check remainder of needle if overlap from last buffer":
\* for i = startOffset; i < len(haystack) && needleIndex > 0; i++
RECURSIVE Overlap(_, _, _, _)
Overlap(haystack, needle, i, needleIndex) ==
    IF ~(i < Len(haystack) /\ needleIndex > 0)
    THEN [found |-> FALSE, i |-> i, needleIndex |-> needleIndex]
    ELSE IF haystack[i + 1] = needle[needleIndex + 1]
    THEN IF needleIndex + 1 = Len(needle)
         THEN [found |-> TRUE, i |-> i, needleIndex |-> needleIndex + 1]
         ELSE Overlap(haystack, needle, i + 1, needleIndex + 1)
    ELSE Overlap(haystack, needle, i + 1, 0)

\* "Check the end of the haystack for the start of the needle":
\* for ; i < len(haystack); i++
RECURSIVE TailMatch(_, _, _, _)
TailMatch(haystack, needle, i, needleIndex) ==
    IF ~(i < Len(haystack)) THEN needleIndex
    ELSE IF haystack[i + 1] = needle[needleIndex + 1]
    THEN TailMatch(haystack, needle, i + 1, needleIndex + 1)
    ELSE TailMatch(haystack, needle, i + 1, 0)

\* The loop of MemView.Index over the slabs from b on.
RECURSIVE Search(_, _, _, _, _, _)
Search(buf, needle, b, startOffset, currIndex, needleIndex) ==
    IF ~(b < Len(buf)) THEN -1
    ELSE
    LET haystack == buf[b + 1]
        o == Overlap(haystack, needle, startOffset, needleIndex)
        searched == currIndex + (Len(haystack) - startOffset)
    IN  IF o.found
        THEN currIndex + (o.i - startOffset) - (Len(needle) - 1)
        ELSE IF o.i < Len(haystack)
        THEN LET found == BytesIndex(From(haystack, o.i), needle)
                 needleStart == Len(haystack) - Len(needle) + 1
                 i == IF o.i < needleStart THEN needleStart ELSE o.i
             IN  IF found # -1 THEN currIndex + found
                 ELSE Search(buf, needle, b + 1, 0, searched,
                             TailMatch(haystack, needle, i, o.needleIndex))
        ELSE Search(buf, needle, b + 1, 0, searched, o.needleIndex)

\* MemView.Index(start, sep)
Index(buf, start, sep) ==
    LET f == FindStart(buf, 0, 0, start) IN
    IF f.startBuf = -1 THEN -1
    ELSE IF Len(sep) = 0 THEN start
    ELSE Search(buf, sep, f.startBuf, f.startOffset, f.currIndex, 0)

\* The views of n slabs over the byte sequence bytes.
SplitsInto(bytes, n) ==
    {[k \in 1..n |->
         SubSeq(bytes, (IF k = 1 THEN 0 ELSE cut[k - 1]) + 1,
                IF k = n THEN Len(bytes) ELSE cut[k])] :
        cut \in {c \in [1..(n - 1) -> 0..Len(bytes)] :
                    \A k \in 1..(n - 2) : c[k] <= c[k + 1]}}

\* The views of NumSlabs slabs over the byte sequence bytes.
SplitsOf(bytes) == SplitsInto(bytes, NumSlabs)

\* The components modelled before the views, and their idle state.
baseVars == <<flowVars, selVars, accVars, dispVars, capVars, memVars>>

BaseIdle == FlowInit /\ SelIdle /\ AccIdle /\ DispInit /\ CapIdle /\ MemIdle

\* A view, a start and a pattern are chosen.
IdxInit ==
    /\ BaseIdle /\ ReaderIdle /\ H2Idle /\ ReqIdle /\ TeeIdle /\ HttpIdle /\ TlsIdle /\ TlsfIdle /\ PipeIdle /\ SlabIdle /\ StreamIdle
    /\ \E bytes \in BytesUpTo(MaxViewLen) : mvBuf \in SplitsOf(bytes)
    /\ mvStart \in 0..(MaxViewLen + 1)
    /\ mvSep \in BytesUpTo(MaxSepLen)
    /\ mvResult = NoResult

\* mv.Index(start, sep)
CallIndex ==
    /\ ~mvResult.done
    /\ mvResult' = [done |-> TRUE, index |-> Index(mvBuf, mvStart, mvSep)]
    /\ UNCHANGED <<mvBuf, mvStart, mvSep>>
    /\ UNCHANGED <<baseVars, readerVars, h2Vars, reqVars, teeVars, httpVars, tlsVars, tlsfVars, pipeVars, slabVars, streamVars>>

IdxNext == CallIndex

IdxSpec == IdxInit /\ [][IdxNext]_vars

\* The first offset >= start at which sep occurs in bytes, or -1.
FirstOccurrence(bytes, start, sep) ==
    LET at == {k \in start..Len(bytes) : OccursAt(bytes, sep, k)} IN
    IF at = {} THEN -1 ELSE CHOOSE k \in at : \A j \in at : k <= j

\* C21: Index(start, sep) is the first offset >= start at which sep
\* occurs in the logical bytes of the view, or -1, however the bytes are
\* split into slabs.
C21_IndexIsFirstOccurrence ==
    mvResult.done =>
        mvResult.index = FirstOccurrence(Flat(mvBuf), mvStart, mvSep)

\* The slabs of the view that are not empty.
NonEmptySlabs == {k \in DOMAIN mvBuf : mvBuf[k] # <<>>}

\* Index is right on the views whose bytes lie in one slab, for a
\* pattern that is not empty.
IndexRightInOneSlab ==
    (mvResult.done /\ Cardinality(NonEmptySlabs) = 1 /\ mvSep # <<>>) =>
        mvResult.index = FirstOccurrence(Flat(mvBuf), mvStart, mvSep)

\* ---------------------------------------------------------------------
\* memview: MemViewReader.  The cursor is (rIndex, rOffset, gOffset); a
\* cursor value is the record [rIndex, rOffset, gOffset].
\* ---------------------------------------------------------------------

MaxSeek == 4

Whences == {"SeekStart", "SeekCurrent", "SeekEnd", "other"}

Cursor(i, o, g) == [rIndex |-> i, rOffset |-> o, gOffset |-> g]

\* mv.CreateReader()
CreateReader == Cursor(0, 0, 0)

\* mv.length, kept by New and Append as the sum of the slab lengths
ViewLength(buf) == Len(Flat(buf))

\* r.ReadByte(): [eof, byte, cur]
RECURSIVE ReadByte(_, _)
ReadByte(buf, cur) ==
    IF cur.rIndex >= Len(buf)
    THEN [eof |-> TRUE, byte |-> 0, cur |-> cur]
    ELSE LET curBuf == buf[cur.rIndex + 1] IN
         IF cur.rOffset < Len(curBuf)
         THEN [eof |-> FALSE, byte |-> curBuf[cur.rOffset + 1],
               cur |-> Cursor(cur.rIndex, cur.rOffset + 1, cur.gOffset + 1)]
         ELSE ReadByte(buf, Cursor(cur.rIndex + 1, 0, cur.gOffset))

\* The loop of r.Read(out) from slab cur.rIndex on, with room bytes of out
\* still free: [n, cur]
RECURSIVE ReadLoop(_, _, _, _)
ReadLoop(buf, cur, room, bytesRead) ==
    IF cur.rIndex >= Len(buf)
    THEN [n |-> bytesRead, cur |-> cur]
    ELSE LET lenCurr == Len(buf[cur.rIndex + 1]) - cur.rOffset
             cp == Min(room, lenCurr)
         IN  IF cp = lenCurr
             THEN ReadLoop(buf, Cursor(cur.rIndex + 1, 0, cur.gOffset + cp),
                           room - cp, bytesRead + cp)
             ELSE [n |-> bytesRead + cp,
                   cur |-> Cursor(cur.rIndex, cur.rOffset + cp,
                                  cur.gOffset + cp)]

\* r.Read(out) with len(out) = n: [n, eof, cur]
Read(buf, cur, n) ==
    IF n = 0 THEN [n |-> 0, eof |-> FALSE, cur |-> cur]
    ELSE IF cur.rIndex >= Len(buf) THEN [n |-> 0, eof |-> TRUE, cur |-> cur]
    ELSE LET l == ReadLoop(buf, cur, n, 0)
         IN  [n |-> l.n, eof |-> FALSE, cur |-> l.cur]

\* case io.SeekCurrent of r.Seek: [n, err, cur], cur being the cursor the
\* loop leaves behind
RECURSIVE SeekCurrent(_, _, _)
SeekCurrent(buf, cur, offset) ==
    IF offset = 0 THEN [n |-> cur.gOffset, err |-> FALSE, cur |-> cur]
    ELSE IF /\ cur.rIndex < Len(buf)
            /\ 0 <= cur.rOffset + offset
            /\ cur.rOffset + offset < Len(buf[cur.rIndex + 1])
    THEN [n |-> cur.gOffset + offset, err |-> FALSE,
          cur |-> Cursor(cur.rIndex, cur.rOffset + offset,
                         cur.gOffset + offset)]
    ELSE IF offset < 0
    THEN IF cur.rIndex - 1 < 0
         THEN [n |-> 0, err |-> TRUE,
               cur |-> Cursor(cur.rIndex - 1, cur.rOffset,
                              cur.gOffset - cur.rOffset)]
         ELSE SeekCurrent(buf,
                          Cursor(cur.rIndex - 1, Len(buf[cur.rIndex]),
                                 cur.gOffset - cur.rOffset),
                          offset + cur.rOffset)
    ELSE IF cur.rIndex < Len(buf)
    THEN LET numSkipped == Len(buf[cur.rIndex + 1]) - cur.rOffset
         IN  SeekCurrent(buf,
                         Cursor(cur.rIndex + 1, 0, cur.gOffset + numSkipped),
                         offset - numSkipped)
    ELSE [n |-> cur.gOffset, err |-> FALSE, cur |-> cur]

\* The switch of r.Seek, before the deferred function runs.
SeekSwitch(buf, cur, offset, whence) ==
    CASE whence = "SeekStart" -> SeekCurrent(buf, Cursor(0, 0, 0), offset)
      [] whence = "SeekEnd" ->
            SeekCurrent(buf, Cursor(Len(buf), 0, ViewLength(buf)), offset)
      [] whence = "SeekCurrent" -> SeekCurrent(buf, cur, offset)
      [] OTHER -> [n |-> 0, err |-> TRUE, cur |-> cur]

\* Seek whose deferred function restores nothing.
Seek_NoRestore(buf, cur, offset, whence) ==
    SeekSwitch(buf, cur, offset, whence)

\* r.Seek(offset, whence): the deferred function puts the saved cursor back
\* when err is not nil.
Seek(buf, cur, offset, whence) ==
    LET s == SeekSwitch(buf, cur, offset, whence)
    IN  IF s.err THEN [s EXCEPT !.cur = cur] ELSE s

TheCursor == Cursor(rIndex, rOffset, gOffset)

SetCursor(cur) ==
    /\ rIndex' = cur.rIndex
    /\ rOffset' = cur.rOffset
    /\ gOffset' = cur.gOffset

\* The input of the reader: n bytes that all differ, byte k being k.
Input(n) == [k \in 1..n |-> k]

\* A view of NumSlabs slabs and a fresh reader on it.
ReaderInit ==
    /\ BaseIdle /\ H2Idle /\ ReqIdle /\ TeeIdle /\ HttpIdle /\ TlsIdle /\ TlsfIdle /\ PipeIdle /\ SlabIdle /\ StreamIdle
    /\ \E n \in 0..MaxViewLen : mvBuf \in SplitsOf(Input(n))
    /\ mvStart = 0
    /\ mvSep = <<>>
    /\ mvResult = NoResult
    /\ rIndex = CreateReader.rIndex
    /\ rOffset = CreateReader.rOffset
    /\ gOffset = CreateReader.gOffset
    /\ rdLast = [op |-> "none"]

ReaderReadByte ==
    LET r == ReadByte(mvBuf, TheCursor) IN
    /\ SetCursor(r.cur)
    /\ rdLast' = [op |-> "ReadByte", err |-> r.eof, n |-> 0]
    /\ UNCHANGED <<baseVars, viewVars, h2Vars, reqVars, teeVars, httpVars, tlsVars, tlsfVars, pipeVars, slabVars, streamVars>>

ReaderRead ==
    \E n \in 0..MaxViewLen :
        LET r == Read(mvBuf, TheCursor, n) IN
        /\ SetCursor(r.cur)
        /\ rdLast' = [op |-> "Read", err |-> r.eof, n |-> r.n]
        /\ UNCHANGED <<baseVars, viewVars, h2Vars, reqVars, teeVars, httpVars, tlsVars, tlsfVars, pipeVars, slabVars, streamVars>>

SeekCall(offset, whence) ==
    LET s == Seek(mvBuf, TheCursor, offset, whence) IN
    /\ SetCursor(s.cur)
    /\ rdLast' = [op |-> "Seek", err |-> s.err, n |-> s.n]
    /\ UNCHANGED <<baseVars, viewVars, h2Vars, reqVars, teeVars, httpVars, tlsVars, tlsfVars, pipeVars, slabVars, streamVars>>

ReaderSeek ==
    \E offset \in (-MaxSeek)..MaxSeek, whence \in Whences :
        SeekCall(offset, whence)

ReaderNext == ReaderReadByte \/ ReaderRead \/ ReaderSeek

ReaderSpec == ReaderInit /\ [][ReaderNext]_vars

\* The absolute offset a seek asks for.
SeekTarget(offset, whence) ==
    CASE whence = "SeekStart" -> offset
      [] whence = "SeekEnd" -> ViewLength(mvBuf) + offset
      [] OTHER -> gOffset + offset

\* What the next ReadByte of a reader at absolute offset g returns.
ByteAt(g) ==
    IF g < ViewLength(mvBuf)
    THEN [eof |-> FALSE, byte |-> Flat(mvBuf)[g + 1]]
    ELSE [eof |-> TRUE, byte |-> 0]

ByteRead(r) == [eof |-> r.eof, byte |-> r.byte]

\* The cursor is a position of the view: rOffset lies in slab rIndex (or is 0
\* behind the last slab) and gOffset counts the bytes before it.
CursorOk ==
    /\ rIndex \in 0..Len(mvBuf)
    /\ rOffset \in 0..(IF rIndex < Len(mvBuf) THEN Len(mvBuf[rIndex + 1]) ELSE 0)
    /\ gOffset = ViewLength(SubSeq(mvBuf, 1, rIndex)) + rOffset

SeekPost(offset, whence) ==
    LET target == SeekTarget(offset, whence)
        after == Cursor(rIndex', rOffset', gOffset')
    IN  /\ rdLast'.err <=> (whence = "other" \/ target < 0)
        /\ ~rdLast'.err =>
              /\ rdLast'.n = Min(target, ViewLength(mvBuf))
              /\ ByteRead(ReadByte(mvBuf, after)) = ByteAt(target)
        /\ rdLast'.err =>
              /\ after = TheCursor
              /\ ByteRead(ReadByte(mvBuf, after)) = ByteAt(gOffset)

\* C22: from every cursor the reader can be in, for every whence and offset,
\* a seek that succeeds returns the absolute offset asked for, or the view
\* length when that is past the end, and the next ReadByte returns the byte
\* at that offset, or EOF; a seek fails exactly when the target lies before
\* the start (or whence is unknown), and then leaves the cursor as it was on
\* entry, so the next ReadByte returns what it would have returned before.
C22_SeekContract ==
    [][\A offset \in (-MaxSeek)..MaxSeek, whence \in Whences :
          SeekCall(offset, whence) => SeekPost(offset, whence)]_vars

\* A failed seek from the middle of the second slab, the cursor still there.
C22_Witness ==
    /\ rdLast.op = "Seek" /\ rdLast.err
    /\ rIndex = 1 /\ rOffset = 1 /\ gOffset = 2
    /\ Len(mvBuf[2]) = 2

\* ---------------------------------------------------------------------
\* http2: Accepts of the connection preface on the bytes of a view, and the
\* http2Sink it leads to.
\* ---------------------------------------------------------------------

MaxJunk == 1
NumPrefaceSlabs == 2
MaxSinkCalls == 3
MaxSinkInput == 1

\* "PRI * HTTP/2.0\r\n\r\nSM\r\n\r\n"
connectionPreface ==
    <<"P", "R", "I", " ", "*", " ", "H", "T", "T", "P", "/", "2", ".", "0",
      "CR", "LF", "CR", "LF", "S", "M", "CR", "LF", "CR", "LF">>

connectionPrefaceFirstByte == SubSeq(connectionPreface, 1, 1)

\* input.Len() of a view
ViewLen(buf) == Len(Flat(buf))

\* Accepts, were a short input cut back to its first byte equal to the
\* preface's first byte.
PrefaceAccepts_DiscardShort(buf, isEnd) ==
    IF ViewLen(buf) < Len(connectionPreface)
    THEN IF isEnd THEN Answer("Reject", ViewLen(buf))
         ELSE LET possible == FirstOccurrence(Flat(buf), 0,
                                              connectionPrefaceFirstByte)
              IN  Answer("NeedMoreData",
                         IF possible >= 0 THEN possible ELSE ViewLen(buf))
    ELSE LET start == Index(buf, 0, connectionPreface) IN
         IF start >= 0 THEN Answer("Accept", start)
         ELSE IF isEnd THEN Answer("Reject", ViewLen(buf))
         ELSE LET nMinus1Suffix == ViewLen(buf) - Len(connectionPreface) + 1
                  possible == Index(buf, nMinus1Suffix,
                                    connectionPrefaceFirstByte)
              IN  IF possible >= 0 THEN Answer("NeedMoreData", possible)
                  ELSE Answer("Reject", ViewLen(buf))

\* http2PrefaceParserFactory.Accepts on the view buf
PrefaceAccepts(buf, isEnd) ==
    IF ViewLen(buf) < Len(connectionPreface)
    THEN IF isEnd THEN Answer("Reject", ViewLen(buf))
         ELSE Answer("NeedMoreData", 0)
    ELSE LET start == Index(buf, 0, connectionPreface) IN
         IF start >= 0 THEN Answer("Accept", start)
         ELSE IF isEnd THEN Answer("Reject", ViewLen(buf))
         ELSE LET nMinus1Suffix == ViewLen(buf) - Len(connectionPreface) + 1
                  possible == Index(buf, nMinus1Suffix,
                                    connectionPrefaceFirstByte)
              IN  IF possible >= 0 THEN Answer("NeedMoreData", possible)
                  ELSE Answer("Reject", ViewLen(buf))

\* CreateParser
NewSink == [made |-> TRUE, firstInput |-> TRUE, totalBytesConsumed |-> 0]

\* http2Sink.Parse with an input of inputLen bytes: [sink, result, unused,
\* totalBytesConsumed, err]
SinkParse(s, inputLen, isEnd) ==
    IF s.firstInput
    THEN [sink |-> [s EXCEPT !.firstInput = FALSE, !.totalBytesConsumed = 0],
          result |-> "HTTP2ConnectionPreface", unused |-> 0,
          totalBytesConsumed |-> inputLen, err |-> FALSE]
    ELSE [sink |-> [s EXCEPT !.totalBytesConsumed = @ + inputLen],
          result |-> "nil", unused |-> 0,
          totalBytesConsumed |-> s.totalBytesConsumed + inputLen,
          err |-> FALSE]

\* The bytes Accepts is called on: up to MaxJunk bytes, then the first k
\* bytes of the preface, in NumPrefaceSlabs slabs.
PrefaceJunk == {"P", "x"}

PrefaceInputs ==
    {junk \o SubSeq(connectionPreface, 1, k) :
        junk \in UNION {[1..j -> PrefaceJunk] : j \in 0..MaxJunk},
        k \in 0..Len(connectionPreface)}

H2Init ==
    /\ BaseIdle /\ ReaderIdle /\ ReqIdle /\ TeeIdle /\ HttpIdle /\ TlsIdle /\ TlsfIdle /\ PipeIdle /\ SlabIdle /\ StreamIdle
    /\ \E bytes \in PrefaceInputs : mvBuf \in SplitsInto(bytes, NumPrefaceSlabs)
    /\ mvStart = 0
    /\ mvSep = <<>>
    /\ mvResult = NoResult
    /\ h2IsEnd \in BOOLEAN
    /\ h2Answer = NoResult
    /\ h2Sink = NoSink
    /\ h2Last = NoResult
    /\ h2Calls = 0

\* fact.Accepts(input, isEnd)
H2Accepts ==
    /\ ~h2Answer.done
    /\ h2Answer' = [done |-> TRUE, answer |-> PrefaceAccepts(mvBuf, h2IsEnd)]
    /\ UNCHANGED <<h2IsEnd, h2Sink, h2Last, h2Calls>>
    /\ UNCHANGED <<baseVars, viewVars, readerVars, reqVars, teeVars, httpVars, tlsVars, tlsfVars, pipeVars, slabVars, streamVars>>

\* fact.CreateParser(...), after Accepts has accepted
H2CreateParser ==
    /\ h2Answer.done /\ h2Answer.answer.decision = "Accept"
    /\ ~h2Sink.made
    /\ h2Sink' = NewSink
    /\ UNCHANGED <<h2IsEnd, h2Answer, h2Last, h2Calls>>
    /\ UNCHANGED <<baseVars, viewVars, readerVars, reqVars, teeVars, httpVars, tlsVars, tlsfVars, pipeVars, slabVars, streamVars>>

\* s.Parse(input, isEnd); no call follows the one with isEnd
H2Parse ==
    /\ h2Sink.made
    /\ h2Calls < MaxSinkCalls
    /\ ~(h2Last.done /\ h2Last.isEnd)
    /\ \E inputLen \in 0..MaxSinkInput, isEnd \in BOOLEAN :
          LET p == SinkParse(h2Sink, inputLen, isEnd) IN
          /\ h2Sink' = p.sink
          /\ h2Last' = [done |-> TRUE, isEnd |-> isEnd, result |-> p.result,
                        err |-> p.err]
    /\ h2Calls' = h2Calls + 1
    /\ UNCHANGED <<h2IsEnd, h2Answer>>
    /\ UNCHANGED <<baseVars, viewVars, readerVars, reqVars, teeVars, httpVars, tlsVars, tlsfVars, pipeVars, slabVars, streamVars>>

H2Next == H2Accepts \/ H2CreateParser \/ H2Parse

H2Spec == H2Init /\ [][H2Next]_vars

PrefaceAt == FirstOccurrence(Flat(mvBuf), 0, connectionPreface)

\* Accepts finds the preface where it first occurs.
AcceptsAtFirstPreface ==
    (h2Answer.done /\ PrefaceAt >= 0) =>
        h2Answer.answer = Answer("Accept", PrefaceAt)

\* The sink emits the preface on its first Parse and nothing afterwards, and
\* never an error.
SinkEmitsOnce ==
    h2Last.done =>
        /\ ~h2Last.err
        /\ h2Last.result = (IF h2Calls = 1 THEN "HTTP2ConnectionPreface"
                            ELSE "nil")

\* C23: when the input holds the 24-byte preface, Accepts returns Accept with
\* discardFront the offset of its first occurrence, however the input is
\* split into slabs; the parser made then emits one preface result on its
\* first Parse and no result and no error on every later Parse, the one with
\* isEnd included.
C23_PrefaceAcceptedOnce == AcceptsAtFirstPreface /\ SinkEmitsOnce

\* Accepts was called, not at the end, on fewer bytes than the preface has.
ShortPrefaceInput ==
    h2Answer.done /\ ~h2IsEnd /\ ViewLen(mvBuf) < Len(connectionPreface)

\* The offset of the first byte equal to the preface's first byte, or -1.
FirstPrefaceByteAt ==
    FirstOccurrence(Flat(mvBuf), 0, connectionPrefaceFirstByte)

\* The discard-front keeps every suffix that starts at a byte equal to the
\* preface's first byte.
KeepsPrefaceStarts ==
    \A i \in 1..ViewLen(mvBuf) :
        Flat(mvBuf)[i] = connectionPreface[1] =>
            h2Answer.answer.discardFront <= i - 1

\* C29: on fewer than 24 bytes, not at the end, Accepts returns NeedMoreData
\* with discardFront 0: every byte is kept, so every suffix that starts at a
\* byte equal to the preface's first byte is kept, and no byte before it is
\* discarded.
C29_ShortInputKeepsAll ==
    ShortPrefaceInput =>
        /\ h2Answer.answer = Answer("NeedMoreData", 0)
        /\ KeepsPrefaceStarts

\* The answer on a byte of junk followed by the first two bytes of the
\* preface.
C29_Witness ==
    /\ ShortPrefaceInput
    /\ Flat(mvBuf) = <<"x">> \o SubSeq(connectionPreface, 1, 2)
    /\ h2Answer.answer = Answer("NeedMoreData", 0)

\* C29 as first stated: on fewer than 24 bytes, not at the end, Accepts
\* returns NeedMoreData, keeps every suffix that starts at a byte equal to
\* the preface's first byte, and discards the bytes before the first such
\* byte.
C29_ShortInputDiscardsToFirstByte ==
    ShortPrefaceInput =>
        /\ h2Answer.answer.decision = "NeedMoreData"
        /\ KeepsPrefaceStarts
        /\ FirstPrefaceByteAt >= 0 =>
               h2Answer.answer.discardFront = FirstPrefaceByteAt

\* ---------------------------------------------------------------------
\* http: Accepts of the request factory on the bytes of a view.
\* ---------------------------------------------------------------------

MaxGarbage == 1
NumRequestSlabs == 4
maxHTTPRequestURILength == 4000
httpVersionLineLength == 10

supportedHTTPMethods ==
    <<<<"G", "E", "T">>, <<"P", "O", "S", "T">>,
      <<"D", "E", "L", "E", "T", "E">>, <<"H", "E", "A", "D">>,
      <<"P", "U", "T">>, <<"P", "A", "T", "C", "H">>,
      <<"C", "O", "N", "N", "E", "C", "T">>,
      <<"O", "P", "T", "I", "O", "N", "S">>, <<"T", "R", "A", "C", "E">>>>

SP == <<" ">>

\* "HTTP/1.1\r\n" and "HTTP/1.0\r\n"
Version11 == <<"H", "T", "T", "P", "/", "1", ".", "1", "CR", "LF">>
Version10 == <<"H", "T", "T", "P", "/", "1", ".", "0", "CR", "LF">>

\* mv.GetByte(index); the byte 0 out of bounds
GetByte(buf, index) ==
    IF index < 0 \/ index >= ViewLen(buf) THEN 0 ELSE Flat(buf)[index + 1]

\* Bytes of the slabs before slab i.
BytesBefore(buf, i) == ViewLen(SubSeq(buf, 1, i - 1))

\* mv.SubView(start, end): the slabs from the one holding start to the one
\* holding end, the first and the last one cut.
MemSubView(buf, start, end) ==
    IF start >= end THEN <<>>
    ELSE LET starts == {i \in DOMAIN buf : BytesBefore(buf, i + 1) > start}
             ends == {i \in DOMAIN buf : BytesBefore(buf, i + 1) >= end}
         IN  IF starts = {} \/ ends = {} THEN <<>>
             ELSE LET startBuf == CHOOSE i \in starts : \A j \in starts : i <= j
                      endBuf == CHOOSE i \in ends : \A j \in ends : i <= j
                      startOffset == start - BytesBefore(buf, startBuf)
                      endOffset == end - BytesBefore(buf, endBuf)
                  IN  [k \in 1..(endBuf + 1 - startBuf) |->
                          LET slab == buf[startBuf + k - 1] IN
                          SubSeq(slab,
                                 IF k = 1 THEN startOffset + 1 ELSE 1,
                                 IF startBuf + k - 1 = endBuf THEN endOffset
                                 ELSE Len(slab))]

\* hasValidHTTPRequestLine on the view that starts after the method
hasValidHTTPRequestLine(input) ==
    IF ViewLen(input) = 0 THEN "NeedMoreData"
    ELSE IF GetByte(input, 0) # " " THEN "Reject"
    ELSE LET nextSP == Index(input, 1, SP) IN
         IF nextSP < 0
         THEN IF ViewLen(input) - 1 > maxHTTPRequestURILength THEN "Reject"
              ELSE "NeedMoreData"
         ELSE IF nextSP = 1 THEN "Reject"
         ELSE LET tail == MemSubView(input, nextSP + 1, ViewLen(input)) IN
              IF ViewLen(tail) < httpVersionLineLength THEN "NeedMoreData"
              ELSE IF \/ Index(tail, 0, Version11) = 0
                      \/ Index(tail, 0, Version10) = 0
              THEN "Accept"
              ELSE "Reject"

\* The loop of Accepts over supportedHTTPMethods from method k on.
RECURSIVE MethodLoop(_, _)
MethodLoop(input, k) ==
    IF k > Len(supportedHTTPMethods)
    THEN IF ViewLen(input) < maxSupportedHTTPMethodLength
         THEN Answer("NeedMoreData", 0)
         ELSE Answer("Reject", ViewLen(input))
    ELSE LET m == supportedHTTPMethods[k]
             start == Index(input, 0, m)
         IN  IF start < 0 THEN MethodLoop(input, k + 1)
             ELSE LET d == hasValidHTTPRequestLine(
                               MemSubView(input, start + Len(m),
                                          ViewLen(input)))
                  IN  IF d = "Accept" THEN Answer("Accept", start)
                      ELSE IF d = "NeedMoreData"
                      THEN Answer("NeedMoreData", start)
                      ELSE MethodLoop(input, k + 1)

\* httpRequestParserFactory.Accepts on a view; the deferred function turns
\* NeedMoreData into Reject at the end of the stream.
RequestAccepts(input, isEnd) ==
    LET a == IF ViewLen(input) < minSupportedHTTPMethodLength
             THEN Answer("NeedMoreData", 0)
             ELSE MethodLoop(input, 1)
    IN  IF a.decision = "NeedMoreData" /\ isEnd
        THEN Answer("Reject", ViewLen(input))
        ELSE a

\* "GET / HTTP/1.1\r\n"
RequestLine == <<"G", "E", "T", " ", "/", " ">> \o Version11

RequestGarbage == {"G", "x"}

\* Up to MaxGarbage bytes, then the first k bytes of the request line.
RequestInputs ==
    {garbage \o SubSeq(RequestLine, 1, k) :
        garbage \in UNION {[1..j -> RequestGarbage] : j \in 0..MaxGarbage},
        k \in 0..Len(RequestLine)}

ReqInit ==
    /\ BaseIdle /\ ReaderIdle /\ H2Idle /\ TeeIdle /\ HttpIdle /\ TlsIdle /\ TlsfIdle /\ PipeIdle /\ SlabIdle /\ StreamIdle
    /\ \E bytes \in RequestInputs : mvBuf \in SplitsInto(bytes, NumRequestSlabs)
    /\ mvStart = 0
    /\ mvSep = <<>>
    /\ mvResult = NoResult
    /\ reqIsEnd \in BOOLEAN
    /\ reqAnswer = NoResult

\* fact.Accepts(input, atEnd)
ReqAccepts ==
    /\ ~reqAnswer.done
    /\ reqAnswer' = [done |-> TRUE, answer |-> RequestAccepts(mvBuf, reqIsEnd)]
    /\ UNCHANGED reqIsEnd
    /\ UNCHANGED <<baseVars, viewVars, readerVars, h2Vars, teeVars, httpVars, tlsVars, tlsfVars, pipeVars, slabVars, streamVars>>

ReqNext == ReqAccepts

ReqSpec == ReqInit /\ [][ReqNext]_vars

\* A supported method at offset at of bytes, then SP, a target without SP,
\* SP and the version line.
RequestLineAt(bytes, at) ==
    \E k \in DOMAIN supportedHTTPMethods :
        LET m == supportedHTTPMethods[k]
            rest == From(bytes, at + Len(m))
        IN  /\ OccursAt(bytes, m, at)
            /\ Len(rest) > 0 /\ rest[1] = " "
            /\ LET nextSP == FirstOccurrence(rest, 1, SP) IN
               /\ nextSP > 1
               /\ \/ OccursAt(rest, Version11, nextSP + 1)
                  \/ OccursAt(rest, Version10, nextSP + 1)

FirstRequestLine(bytes) ==
    LET at == {k \in 0..Len(bytes) : RequestLineAt(bytes, k)} IN
    IF at = {} THEN -1 ELSE CHOOSE k \in at : \A j \in at : k <= j

AcceptsAtFirstRequestLine ==
    (reqAnswer.done /\ FirstRequestLine(Flat(mvBuf)) >= 0) =>
        reqAnswer.answer = Answer("Accept", FirstRequestLine(Flat(mvBuf)))

\* An input shorter than the longest method is never rejected before the
\* end of the stream.
ShortInputNeedsMoreData ==
    (reqAnswer.done /\ ~reqIsEnd
        /\ ViewLen(mvBuf) < maxSupportedHTTPMethodLength) =>
        reqAnswer.answer.decision = "NeedMoreData"

\* C24: when the input holds a supported method followed by a valid request
\* line, Accepts returns Accept with discardFront the offset of the first
\* such method, however the input is split into four slabs, so the garbage
\* in front of it is discarded; an input of fewer than seven bytes gets
\* NeedMoreData when isEnd is false.
C24_RequestAccepted == AcceptsAtFirstRequestLine /\ ShortInputNeedsMoreData

\* ---------------------------------------------------------------------
\* http: the pairing number of an emitted request or response.
\* ---------------------------------------------------------------------

\* newHTTPParser: gnet.FromStdRequest(bidiID, int(ack), ...) for a request,
\* gnet.FromStdResponse(bidiID, int(seq), ...) for a response, seq and ack
\* being the arguments of CreateParser.
PairingNumber(isRequest, parser) ==
    IF isRequest THEN parser.ack ELSE parser.seq

\* The step emits a parsed message.
EmitsMessage ==
    /\ last'.op \in {"reassembled", "complete"}
    /\ last'.outcome = "result"

\* The parser whose Parse returned the message of this step.
EmittingParser ==
    IF last'.hadParser THEN currentParser
    ELSE CreateParser(last'.sel.fact, last'.ctx)

\* The first byte of the message of this step; a byte is named by its place
\* in the stream, which is its TCP sequence number.
FirstByteOfMessage == Head(last'.fedBefore \o last'.parseInput)

\* A request carries the acknowledgement number of the packet that holds
\* its first byte.
RequestCarriesAck ==
    EmitsMessage =>
        PairingNumber(TRUE, EmittingParser) = pktCtx'[FirstByteOfMessage].ack

\* A response carries the sequence number of its first byte.
ResponseCarriesSeq ==
    EmitsMessage =>
        PairingNumber(FALSE, EmittingParser) = FirstByteOfMessage

\* Every step of the flow keeps the request half.
RequestsCarryAck == [][RequestCarriesAck]_vars

\* C25: every emitted request carries the TCP acknowledgement number of its
\* first byte and every emitted response the TCP sequence number of its
\* first byte, whichever parser of the flow emits it.
C25_PairingNumbers == [][RequestCarriesAck /\ ResponseCarriesSeq]_vars

\* ---------------------------------------------------------------------
\* gnet.Tee: the goroutine "for t := range in { out1 <- t; out2 <- t }"
\* with its deferred close(out2) and close(out1), a sender on in and one
\* receiver on each output that is always ready to receive.
\* ---------------------------------------------------------------------

MaxTeeItems == 3
NumTeeValues == 2

TeeValues == 1..NumTeeValues

\* The position after the send on output k, were out2 never written.
TeeAfterSend_OneOutput(k) == "recv"

\* The position of the goroutine after "out1 <- t" (k = 1) and after
\* "out2 <- t" (k = 2).
TeeAfterSend(k) == IF k = 1 THEN "send2" ELSE "recv"

\* Output k hands item to its receiver.
TeeDeliver(out, k, item) == [out EXCEPT ![k].got = Append(@, item)]

\* close(out k)
TeeClose(out, k) == [out EXCEPT ![k].closed = TRUE]

TeeInit ==
    /\ BaseIdle /\ ExtIdle

\* "t := range in" receives an item some sender puts on in.
TeeRecv ==
    /\ teePc = "recv" /\ ~teeInClosed
    /\ Len(teeSent) < MaxTeeItems
    /\ \E t \in TeeValues :
          /\ teeItem' = t
          /\ teeSent' = Append(teeSent, t)
    /\ teePc' = "send1"
    /\ UNCHANGED <<teeInClosed, teeOut>>
    /\ UNCHANGED <<baseVars, viewVars, readerVars, h2Vars, reqVars, httpVars, tlsVars, tlsfVars, pipeVars, slabVars, streamVars>>

\* The sender closes in.
TeeCloseIn ==
    /\ ~teeInClosed
    /\ teeInClosed' = TRUE
    /\ UNCHANGED <<teePc, teeItem, teeSent, teeOut>>
    /\ UNCHANGED <<baseVars, viewVars, readerVars, h2Vars, reqVars, httpVars, tlsVars, tlsfVars, pipeVars, slabVars, streamVars>>

\* "out1 <- t" and "out2 <- t": the channels have no buffer, the send
\* completes when the receiver takes the item.
TeeSend(k) ==
    /\ teePc = (IF k = 1 THEN "send1" ELSE "send2")
    /\ teeOut' = TeeDeliver(teeOut, k, teeItem)
    /\ teePc' = TeeAfterSend(k)
    /\ UNCHANGED <<teeItem, teeSent, teeInClosed>>
    /\ UNCHANGED <<baseVars, viewVars, readerVars, h2Vars, reqVars, httpVars, tlsVars, tlsfVars, pipeVars, slabVars, streamVars>>

TeeSend1 == TeeSend(1)

TeeSend2 == TeeSend(2)

\* The range loop ends when in is closed and empty.
TeeRangeEnds ==
    /\ teePc = "recv" /\ teeInClosed
    /\ teePc' = "close2"
    /\ UNCHANGED <<teeItem, teeSent, teeInClosed, teeOut>>
    /\ UNCHANGED <<baseVars, viewVars, readerVars, h2Vars, reqVars, httpVars, tlsVars, tlsfVars, pipeVars, slabVars, streamVars>>

\* The deferred calls run last to first: close(out2), then close(out1).
TeeClose2 ==
    /\ teePc = "close2"
    /\ teeOut' = TeeClose(teeOut, 2)
    /\ teePc' = "close1"
    /\ UNCHANGED <<teeItem, teeSent, teeInClosed>>
    /\ UNCHANGED <<baseVars, viewVars, readerVars, h2Vars, reqVars, httpVars, tlsVars, tlsfVars, pipeVars, slabVars, streamVars>>

TeeClose1 ==
    /\ teePc = "close1"
    /\ teeOut' = TeeClose(teeOut, 1)
    /\ teePc' = "done"
    /\ UNCHANGED <<teeItem, teeSent, teeInClosed>>
    /\ UNCHANGED <<baseVars, viewVars, readerVars, h2Vars, reqVars, httpVars, tlsVars, tlsfVars, pipeVars, slabVars, streamVars>>

\* The steps of the goroutine that need no sender.
TeeRuns == TeeSend1 \/ TeeSend2 \/ TeeRangeEnds \/ TeeClose2 \/ TeeClose1

TeeNext == TeeRecv \/ TeeCloseIn \/ TeeRuns

\* The goroutine is scheduled and both receivers keep receiving, so a step
\* of the goroutine that can be taken is taken.
TeeSpec == TeeInit /\ [][TeeNext]_vars /\ WF_vars(TeeRuns)

IsPrefixOf(s, t) == Len(s) <= Len(t) /\ s = SubSeq(t, 1, Len(s))

\* Each output has received a prefix of the input, out2 at most one item
\* behind out1, and is closed only after in is closed and everything has
\* been handed on.
TeeOrder ==
    /\ \A k \in 1..2 : IsPrefixOf(teeOut[k].got, teeSent)
    /\ teeOut[1].got = teeSent \/ (teePc = "send1" /\ Append(teeOut[1].got, teeItem) = teeSent)
    /\ Len(teeOut[1].got) - Len(teeOut[2].got) = (IF teePc = "send2" THEN 1 ELSE 0)
    /\ \A k \in 1..2 :
          teeOut[k].closed => (teeInClosed /\ teeOut[k].got = teeSent)

\* Both outputs are closed and have received every item of the input.
TeeDone ==
    \A k \in 1..2 : teeOut[k].closed /\ teeOut[k].got = teeSent

\* C26: with both outputs drained, each output receives the items of the
\* input in input order, and once the input is closed both outputs end up
\* closed with every item delivered to both.
C26_TeeDelivers == []TeeOrder /\ (teeInClosed ~> TeeDone)

\* Three items, not all the same, have gone to both outputs, both closed.
C26_Witness ==
    /\ TeeDone
    /\ Len(teeSent) = MaxTeeItems
    /\ teeSent[1] # teeSent[2]

\* ---------------------------------------------------------------------
\* http: the goroutine of newHTTPParser.  It takes a body buffer from the
\* pool, reads one message, and either reports an error and releases the
\* buffer or hands the message with its buffer to the consumer, who
\* releases it.
\* ---------------------------------------------------------------------

NumParsers == 2
NumHttpChunks == 2
HttpChunkSize == 2
MaxBody == 3

\* What the body reader of net/http does at the end of its bytes: io.EOF
\* on the next read, io.EOF with the last bytes, io.ErrUnexpectedEOF when
\* the stream ends inside the body, another error for a malformed body.
BodyKinds == {"memview", "eofWithData", "cutShort", "malformed"}

\* The body of a message: n bytes.
BodyData(n) == [i \in 1..n |-> 1]

\* io.Copy(body, req.Body) is body.ReadFrom(req.Body).
CopyBody(buf, pool, n, kind) ==
    [ReadFrom(buf, pool, BodyData(n),
              IF kind \in {"cutShort", "malformed"} THEN "failing" ELSE kind)
        EXCEPT !.err = IF @ = "errRead" /\ kind = "cutShort"
                       THEN "ErrUnexpectedEOF" ELSE @]

\* The switch on bodyErr, were no error taken for a truncated body.
BodyError_Keep(bodyErr) == bodyErr

\* The switch on bodyErr of readSingleHTTPRequest and
\* readSingleHTTPResponse: a body that was truncated is no error.
BodyError(bodyErr) ==
    IF bodyErr \in {"ErrUnexpectedEOF", "ErrEmptyPool"} THEN "nil"
    ELSE bodyErr

\* readSingleHTTPRequest and readSingleHTTPResponse: [buf, pool, err,
\* emptyPool], emptyPool telling that the pool ran out under the body.
readSingleHTTPMessage(buf, pool, headerOk, hasBody, n, kind) ==
    IF ~headerOk
    THEN [buf |-> buf, pool |-> pool, err |-> "malformed header",
          emptyPool |-> FALSE]
    ELSE IF ~hasBody
    THEN [buf |-> buf, pool |-> pool, err |-> "nil", emptyPool |-> FALSE]
    ELSE CHOOSE m \in
            {[buf |-> c.buf, pool |-> c.pool, err |-> BodyError(c.err),
              emptyPool |-> c.err = "ErrEmptyPool"] :
                c \in {CopyBody(buf, pool, n, kind)}} : TRUE

\* httpParser.Parse once the goroutine is done: httpPipeReaderDone makes a
\* result, httpPipeReaderError an error.
ParseReturns(err) == IF err = "nil" THEN "result" ELSE "error"

\* What the flow sends for a message of n + 1 bytes when Parse returns
\* outcome: the kinds of the records.
FlowSends(n, outcome) ==
    LET ctx == contextFromTCPPacket(1)
        pktData == Range(1, n + 1)
        f == ParseStage(FlowState(CreateParser(1, ctx), ctx, <<>>, <<>>,
                                  <<>>, -1, -1),
                        Len(pktData), pktData, FALSE, outcome, 0)
    IN  [k \in DOMAIN f.outChan |-> f.outChan[k].kind]

IdleParser ==
    [pc |-> "idle", buf |-> newBuffer, outcome |-> "-", emptyPool |-> FALSE,
     sent |-> <<>>]

HttpInit ==
    /\ BaseIdle /\ ViewIdle /\ ReaderIdle /\ H2Idle /\ ReqIdle /\ TeeIdle /\ TlsIdle /\ TlsfIdle /\ PipeIdle /\ SlabIdle /\ StreamIdle
    /\ htPool = MakeBufferPool(NumHttpChunks * HttpChunkSize, HttpChunkSize)
    /\ htParsers = [p \in 1..NumParsers |-> IdleParser]

\* newHTTPParser: the goroutine starts with body := pool.NewBuffer().
HtNewParser(p) ==
    /\ htParsers[p].pc \in {"idle", "released"}
    /\ htParsers' = [htParsers EXCEPT ![p] = [IdleParser EXCEPT !.pc = "reading"]]
    /\ UNCHANGED htPool
    /\ UNCHANGED <<baseVars, viewVars, readerVars, h2Vars, reqVars, teeVars, tlsVars, tlsfVars, pipeVars, slabVars, streamVars>>

\* The goroutine reads the message and closes the pipe with the outcome;
\* Parse returns it and the flow sends its record.
HtRead(p) ==
    /\ htParsers[p].pc = "reading"
    /\ \E headerOk \in BOOLEAN, hasBody \in BOOLEAN, n \in 0..MaxBody,
          kind \in BodyKinds :
          \E r \in {readSingleHTTPMessage(htParsers[p].buf, htPool, headerOk,
                                         hasBody, n, kind)} :
          LET outcome == ParseReturns(r.err)
          IN  /\ htPool' = r.pool
              /\ htParsers' =
                    [htParsers EXCEPT ![p] =
                        [pc |-> IF outcome = "error" THEN "failed" ELSE "result",
                         buf |-> r.buf, outcome |-> outcome,
                         emptyPool |-> r.emptyPool,
                         sent |-> FlowSends(n, outcome)]]
    /\ UNCHANGED <<baseVars, viewVars, readerVars, h2Vars, reqVars, teeVars, tlsVars, tlsfVars, pipeVars, slabVars, streamVars>>

\* The goroutine after an error, were the buffer kept.
ReleaseAfterError_None(buf, pool) == [buf |-> buf, pool |-> pool]

\* The goroutine after an error: body.Release().
ReleaseAfterError(buf, pool) == Release(buf, pool)

\* body.Release() of the goroutine after an error.
HtRelease(p) ==
    /\ htParsers[p].pc = "failed"
    /\ LET r == ReleaseAfterError(htParsers[p].buf, htPool) IN
       /\ htPool' = r.pool
       /\ htParsers' = [htParsers EXCEPT ![p].pc = "released", ![p].buf = r.buf]
    /\ UNCHANGED <<baseVars, viewVars, readerVars, h2Vars, reqVars, teeVars, tlsVars, tlsfVars, pipeVars, slabVars, streamVars>>

\* The consumer of a message releases its body buffer.
HtConsumerRelease(p) ==
    /\ htParsers[p].pc = "result"
    /\ LET r == Release(htParsers[p].buf, htPool) IN
       /\ htPool' = r.pool
       /\ htParsers' = [htParsers EXCEPT ![p].pc = "released", ![p].buf = r.buf]
    /\ UNCHANGED <<baseVars, viewVars, readerVars, h2Vars, reqVars, teeVars, tlsVars, tlsfVars, pipeVars, slabVars, streamVars>>

HtNewParsers == \E p \in 1..NumParsers : HtNewParser(p)
HtReads == \E p \in 1..NumParsers : HtRead(p)
HtReleases == \E p \in 1..NumParsers : HtRelease(p)
HtConsumerReleases == \E p \in 1..NumParsers : HtConsumerRelease(p)

HttpNext == HtNewParsers \/ HtReads \/ HtReleases \/ HtConsumerReleases

\* Each goroutine that has reported its error goes on to body.Release().
HttpSpec ==
    /\ HttpInit /\ [][HttpNext]_vars
    /\ \A p \in 1..NumParsers : WF_vars(HtRelease(p))

RECURSIVE ChunksHeld(_)
ChunksHeld(p) ==
    IF p = 0 THEN 0 ELSE Len(htParsers[p].buf.chunks) + ChunksHeld(p - 1)

\* No message is being read or waits for its release.
HttpSettled ==
    \A p \in 1..NumParsers : htParsers[p].pc \in {"idle", "released"}

\* Every chunk is in the pool or in the body buffer of a message that is
\* being read, has failed and is not yet released, or is with its consumer;
\* when no such message is left the pool holds its initial number of chunks.
HttpPoolConserved ==
    /\ Len(htPool.chunks) + ChunksHeld(NumParsers) = NumHttpChunks
    /\ \A p \in 1..NumParsers :
          htParsers[p].pc \in {"idle", "reading", "released"} =>
              htParsers[p].buf.chunks = <<>>
    /\ HttpSettled => Len(htPool.chunks) = NumHttpChunks

\* A header or body error is reported as an error of Parse.
ErrorsReported ==
    \A p \in 1..NumParsers :
        htParsers[p].pc = "failed" =>
            /\ htParsers[p].outcome = "error"
            /\ htParsers[p].sent \in {<<>>, <<"DroppedBytes">>}

\* C28: an error in the header or the body is reported by Parse, the
\* goroutine then releases the body buffer, and once every failed message
\* is released and every completed one released by its consumer the pool
\* holds as many free chunks as at the start.
C28_ErrorReleasesBody ==
    /\ [](ErrorsReported /\ HttpPoolConserved)
    /\ \A p \in 1..NumParsers :
          (htParsers[p].pc = "failed") ~> (htParsers[p].pc = "released")

\* A failed message and a completed one, both released, the pool full
\* again.
C28_Witness ==
    /\ htParsers[1].pc = "released" /\ htParsers[1].outcome = "error"
    /\ htParsers[2].pc = "released" /\ htParsers[2].outcome = "result"
    /\ htParsers[2].emptyPool
    /\ Len(htPool.chunks) = NumHttpChunks

\* ---------------------------------------------------------------------
\* tls: the handshake parsers (client hello, server hello, certificate).
\* Parse appends its input to allInput and waits for the whole record:
\* the 5 bytes of the record header and the bytes its length field counts.
\* The stream is given by its length bytes and by whether its handshake
\* body is well formed; allInput is known by its length.
\* ---------------------------------------------------------------------

MaxTlsCalls == 3

tlsRecordHeaderLength_bytes == 5
handshakeHeaderLength_bytes == 4
clientVersionLength_bytes == 2
clientRandomLength_bytes == 32
serverCompressionMethodLength_bytes == 1

\* The certificate parser waits for 12 bytes before it reads the header.
minCertificateInput == 12

TlsKinds == {"client", "server", "certificate"}

\* The values of a length byte, and the lengths of the inputs of Parse.
TlsLengthBytes == {0, 7, 44, 45, 250, 251, 255}
TlsFeeds == {0, 1, 4, 5, 12, 50, 65535}

\* binary.BigEndian.Uint16 of the bytes hi, lo
Uint16(hi, lo) == hi * 256 + lo

\* allInput.GetUint16(tlsRecordHeaderLength_bytes - 2): 0 when the bytes
\* are not there.
TlsGetUint16(len, hi, lo) ==
    IF tlsRecordHeaderLength_bytes <= len THEN Uint16(hi, lo) ELSE 0

\* int64(tlsRecordHeaderLength_bytes + handshakeMsgLen_bytes): the sum of
\* an untyped constant and a uint16 is a uint16.
EndPos(handshakeMsgLen_bytes) ==
    (tlsRecordHeaderLength_bytes + handshakeMsgLen_bytes) % 65536

\* The length of SubView(start, end) of a view of len bytes: an invalid
\* range gives the empty view.
SubViewLen(len, start, end) ==
    IF start >= end \/ start >= len \/ end > len THEN 0 ELSE end - start

\* The fewest bytes of a hello body that parse: handshake header, version,
\* random, session length, cipher suites, compression, extensions length.
minHelloBody ==
    handshakeHeaderLength_bytes + clientVersionLength_bytes
        + clientRandomLength_bytes + 1 + 2
        + serverCompressionMethodLength_bytes + 2

\* The fewest bytes of a certificate body that can parse: handshake header,
\* certificates length, and two certificates of a length field and a byte.
minCertificateBody == handshakeHeaderLength_bytes + 3 + (3 + 1) + (3 + 1)

\* The walk over the handshake body of bodyLen bytes: a result or an error.
\* A body too short for its fields runs into io.EOF or an empty
\* certificate; a longer one parses when its bytes are well formed.
ParseBody(kind, bodyLen, bodyOk) ==
    LET least == IF kind = "certificate" THEN minCertificateBody
                 ELSE minHelloBody
    IN  IF bodyOk /\ bodyLen >= least THEN "result" ELSE "error"

\* parse, on allInput of len bytes: [result, numBytesConsumed, err]
tlsParse(kind, len, hi, lo, bodyOk) ==
    LET threshold == IF kind = "certificate" THEN minCertificateInput
                     ELSE tlsRecordHeaderLength_bytes
        handshakeMsgEndPos == EndPos(TlsGetUint16(len, hi, lo))
        body == SubViewLen(len, tlsRecordHeaderLength_bytes,
                           handshakeMsgEndPos)
        outcome == ParseBody(kind, body, bodyOk)
    IN  IF len < threshold
        THEN [result |-> FALSE, numBytesConsumed |-> 0, err |-> FALSE]
        ELSE IF len < handshakeMsgEndPos
        THEN [result |-> FALSE, numBytesConsumed |-> 0, err |-> FALSE]
        ELSE IF outcome = "result"
        THEN [result |-> TRUE, numBytesConsumed |-> handshakeMsgEndPos,
              err |-> FALSE]
        ELSE [result |-> FALSE,
              numBytesConsumed |-> IF kind = "certificate"
                                   THEN handshakeMsgEndPos ELSE 0,
              err |-> TRUE]

\* Parse, with allInput of len bytes after the input is appended:
\* [result, unusedFrom, unusedLen, totalBytesConsumed, err]
tlsParserParse(kind, len, hi, lo, bodyOk, isEnd) ==
    LET p == tlsParse(kind, len, hi, lo, bodyOk)
        err == p.err \/ (isEnd /\ ~p.result /\ ~p.err)
        unusedLen == SubViewLen(len, p.numBytesConsumed, len)
    IN  IF err
        THEN [result |-> p.result, unusedFrom |-> 0, unusedLen |-> 0,
              totalBytesConsumed |-> len, err |-> TRUE]
        ELSE IF p.result
        THEN [result |-> TRUE, unusedFrom |-> p.numBytesConsumed,
              unusedLen |-> unusedLen,
              totalBytesConsumed |-> len - unusedLen, err |-> FALSE]
        ELSE [result |-> FALSE, unusedFrom |-> 0, unusedLen |-> 0,
              totalBytesConsumed |-> len, err |-> FALSE]

TlsInit ==
    /\ BaseIdle /\ ViewIdle /\ ReaderIdle /\ H2Idle /\ ReqIdle /\ TeeIdle /\ HttpIdle /\ TlsfIdle /\ PipeIdle /\ SlabIdle /\ StreamIdle
    /\ tlsKind \in TlsKinds
    /\ tlsHi \in TlsLengthBytes
    /\ tlsLo \in TlsLengthBytes
    /\ tlsBodyOk \in BOOLEAN
    /\ tlsLen = 0
    /\ tlsLast = NoResult
    /\ tlsCalls = 0

\* parser.Parse(input, isEnd) with an input of n bytes.  The flow drops
\* the parser after a result or an error, and calls nothing after isEnd.
TlsParse ==
    /\ tlsCalls < MaxTlsCalls
    /\ ~(tlsLast.done /\ (tlsLast.isEnd \/ tlsLast.result \/ tlsLast.err))
    /\ \E n \in TlsFeeds, isEnd \in BOOLEAN :
          LET r == tlsParserParse(tlsKind, tlsLen + n, tlsHi, tlsLo,
                                  tlsBodyOk, isEnd)
          IN  /\ tlsLen' = tlsLen + n
              /\ tlsLast' = [done |-> TRUE, isEnd |-> isEnd,
                             result |-> r.result, err |-> r.err,
                             unusedFrom |-> r.unusedFrom,
                             unusedLen |-> r.unusedLen,
                             totalBytesConsumed |-> r.totalBytesConsumed]
    /\ tlsCalls' = tlsCalls + 1
    /\ UNCHANGED <<tlsKind, tlsHi, tlsLo, tlsBodyOk>>
    /\ UNCHANGED <<baseVars, viewVars, readerVars, h2Vars, reqVars, teeVars, httpVars, tlsfVars, pipeVars, slabVars, streamVars>>

TlsNext == TlsParse

TlsSpec == TlsInit /\ [][TlsNext]_vars

\* L: the length in the record header of the stream.
RecordLength == Uint16(tlsHi, tlsLo)

\* 5 + L: where the record ends.
RecordEnd == tlsRecordHeaderLength_bytes + RecordLength

\* Parse returned no result and no error.
TlsWaits == ~tlsLast.result /\ ~tlsLast.err

\* Fewer than 5 + L bytes fed: nothing yet, or an error at the end.
IncompleteRecordWaits ==
    (tlsLast.done /\ tlsLen < RecordEnd) =>
        IF tlsLast.isEnd THEN tlsLast.err /\ ~tlsLast.result ELSE TlsWaits

\* 5 + L bytes fed: the body is parsed, and with a result the unused bytes
\* are those from offset 5 + L on.
CompleteRecordParsed ==
    (tlsLast.done /\ tlsLen >= RecordEnd) =>
        /\ ~TlsWaits
        /\ tlsLast.result =>
              /\ tlsLast.unusedLen = tlsLen - RecordEnd
              /\ tlsLast.unusedLen > 0 => tlsLast.unusedFrom = RecordEnd

\* C30: a handshake parser returns no result and no error while fewer than
\* 5 + L bytes were fed, L the big-endian length of the record header, for
\* every L in 0..65535; with 5 + L bytes it parses the body and the unused
\* bytes are those after offset 5 + L; at the end with an incomplete record
\* it returns an error.
C30_TlsRecordBuffering == IncompleteRecordWaits /\ CompleteRecordParsed

\* The same on the records whose end fits 16 bits and, for the certificate
\* parser, lies at 12 bytes or more.
BufferingWithoutWrap ==
    (/\ RecordEnd < 65536
     /\ tlsKind = "certificate" => RecordEnd >= minCertificateInput)
        => C30_TlsRecordBuffering

\* ---------------------------------------------------------------------
\* tls: Accepts of the client-hello, server-hello and certificate factories
\* on the bytes of an input.  Bytes are the numbers 0..255.
\* ---------------------------------------------------------------------

\* How many bytes of a handshake pattern an input differs in at most.
MaxChanged == 1
\* How many bytes an input is longer than the longest pattern at most.
MaxExtra == 1

\* a & b on bytes
RECURSIVE BitAnd(_, _)
BitAnd(a, b) ==
    IF a = 0 \/ b = 0 THEN 0
    ELSE (a % 2) * (b % 2) + 2 * BitAnd(a \div 2, b \div 2)

clientHelloHandshakeBytes == <<22, 3, 1, 0, 0, 1, 0, 0, 0, 3, 3>>
clientHelloHandshakeMask == <<255, 255, 255, 0, 0, 255, 0, 0, 0, 255, 255>>

serverHelloHandshakeBytes == <<22, 3, 3, 0, 0, 2, 0, 0, 0, 3, 3>>
serverHelloHandshakeMask == <<255, 255, 255, 0, 0, 255, 0, 0, 0, 255, 255>>

\* The server factory whose pattern leaves the minor versions open.
serverHelloHandshakeBytes_3x == <<22, 3, 0, 0, 0, 2, 0, 0, 0, 3, 0>>
serverHelloHandshakeMask_3x == <<255, 255, 0, 0, 0, 255, 0, 0, 0, 255, 0>>

tlsHandshakeCertificateBytes == <<22, 3, 0, 0, 0, 11, 0, 0, 0>>
tlsHandshakeCertificateMask == <<255, 255, 0, 0, 0, 255, 0, 0, 0>>

TlsFactories == {"client", "server", "server3x", "certificate"}

HandshakeBytes(kind) ==
    CASE kind = "client" -> clientHelloHandshakeBytes
      [] kind = "server" -> serverHelloHandshakeBytes
      [] kind = "server3x" -> serverHelloHandshakeBytes_3x
      [] OTHER -> tlsHandshakeCertificateBytes

HandshakeMask(kind) ==
    CASE kind = "client" -> clientHelloHandshakeMask
      [] kind = "server" -> serverHelloHandshakeMask
      [] kind = "server3x" -> serverHelloHandshakeMask_3x
      [] OTHER -> tlsHandshakeCertificateMask

\* The least length at which a factory decides.
MinHandshakeLength(kind) ==
    IF kind \in {"server", "server3x"} THEN minTLSServerHelloLength_bytes
    ELSE minTLSClientHelloLength_bytes

\* The comparison of the loop, were the mask left out.
ByteMatches_NoMask(byte, mask, expectedByte) == byte = expectedByte

\* input.GetByte(idx) & mask[idx] != expectedByte, negated
ByteMatches(byte, mask, expectedByte) == BitAnd(byte, mask) = expectedByte

\* for idx, expectedByte := range pattern { ... return Reject }: TRUE when
\* the loop runs to its end, from idx (1-based) on.
RECURSIVE MatchLoop(_, _, _, _)
MatchLoop(input, pattern, mask, idx) ==
    IF idx > Len(pattern) THEN TRUE
    ELSE IF ~ByteMatches(input[idx], mask[idx], pattern[idx]) THEN FALSE
    ELSE MatchLoop(input, pattern, mask, idx + 1)

\* accepts of the three factories
tlsAcceptsBytes(kind, input) ==
    IF Len(input) < MinHandshakeLength(kind) THEN Answer("NeedMoreData", 0)
    ELSE IF ~MatchLoop(input, HandshakeBytes(kind), HandshakeMask(kind), 1)
    THEN Answer("Reject", Len(input))
    ELSE Answer("Accept", 0)

\* Accepts of the three factories
tlsFactoryAccepts(kind, input, isEnd) ==
    EndOfStream(tlsAcceptsBytes(kind, input), Len(input), isEnd)

\* The bytes put in the place of a byte of a pattern.
OtherBytes == {0, 3, 11, 255}

\* The patterns padded with zeros to the longest input.
Padded(pattern) ==
    [i \in 1..(minTLSClientHelloLength_bytes + MaxExtra) |->
        IF i <= Len(pattern) THEN pattern[i] ELSE 0]

\* A padded pattern with up to n bytes changed.
RECURSIVE Changed(_, _)
Changed(bytes, n) ==
    IF n = 0 THEN {bytes}
    ELSE LET less == Changed(bytes, n - 1) IN
         less \cup {[b EXCEPT ![i] = v] :
                        b \in less, i \in DOMAIN bytes, v \in OtherBytes}

\* The inputs: the first bytes of a pattern with some bytes changed.
TlsFactoryInputs ==
    {SubSeq(b, 1, len) :
        b \in UNION {Changed(Padded(HandshakeBytes(kind)), MaxChanged) :
                        kind \in TlsFactories},
        len \in 0..(minTLSClientHelloLength_bytes + MaxExtra)}

TlsfInit ==
    /\ BaseIdle /\ ViewIdle /\ ReaderIdle /\ H2Idle /\ ReqIdle /\ TeeIdle /\ HttpIdle /\ TlsIdle /\ PipeIdle /\ SlabIdle /\ StreamIdle
    /\ tfKind \in TlsFactories
    /\ tfInput \in TlsFactoryInputs
    /\ tfIsEnd \in BOOLEAN
    /\ tfAnswer = NoResult

\* factory.Accepts(input, isEnd)
TlsfAccepts ==
    /\ ~tfAnswer.done
    /\ tfAnswer' = [done |-> TRUE,
                    answer |-> tlsFactoryAccepts(tfKind, tfInput, tfIsEnd)]
    /\ UNCHANGED <<tfKind, tfInput, tfIsEnd>>
    /\ UNCHANGED <<baseVars, viewVars, readerVars, h2Vars, reqVars, teeVars, httpVars, tlsVars, pipeVars, slabVars, streamVars>>

TlsfNext == TlsfAccepts

TlsfSpec == TlsfInit /\ [][TlsfNext]_vars

\* Every masked byte of the input is the byte of the pattern.
MatchesUnderMask(input, pattern, mask) ==
    \A i \in 1..Len(pattern) : BitAnd(input[i], mask[i]) = pattern[i]

\* The answer asked of a recognizer on tfInput.
MaskedAnswer ==
    IF Len(tfInput) < 11
    THEN IF tfIsEnd THEN Answer("Reject", Len(tfInput))
         ELSE Answer("NeedMoreData", 0)
    ELSE IF MatchesUnderMask(tfInput, HandshakeBytes(tfKind),
                             HandshakeMask(tfKind))
    THEN Answer("Accept", 0)
    ELSE Answer("Reject", Len(tfInput))

\* Every bit set in a pattern is set in its mask, and both are as long.
PatternUnderMask(kind) ==
    /\ Len(HandshakeBytes(kind)) = Len(HandshakeMask(kind))
    /\ \A i \in 1..Len(HandshakeBytes(kind)) :
          BitAnd(HandshakeBytes(kind)[i], HandshakeMask(kind)[i])
              = HandshakeBytes(kind)[i]

\* The length of the pattern of a recognizer.
PatternLength(kind) == IF kind = "certificate" THEN 9 ELSE 11

\* C31: each recognizer answers NeedMoreData with discardFront 0 on fewer
\* than 11 bytes when not at the end (Reject of all bytes at the end), and
\* on 11 bytes or more accepts exactly when the first bytes of the input,
\* under the mask, are the pattern; pattern and mask are equally long, 11
\* bytes for the hellos and 9 for the certificate, and every bit set in a
\* pattern is set in its mask.
C31_MaskedPatternDecides ==
    /\ tfAnswer.done => tfAnswer.answer = MaskedAnswer
    /\ \A kind \in TlsFactories :
          /\ PatternUnderMask(kind)
          /\ Len(HandshakeBytes(kind)) = PatternLength(kind)

\* A client hello with a length in its ignored bytes is accepted.
C31_Witness ==
    /\ tfAnswer.done /\ tfKind = "client" /\ ~tfIsEnd
    /\ tfInput = [clientHelloHandshakeBytes EXCEPT ![4] = 255]
    /\ tfAnswer.answer = Answer("Accept", 0)

\* C31 as first stated: the same, with every pattern and every mask 11 bytes
\* long.
C31_PatternsOfElevenBytes ==
    /\ tfAnswer.done => tfAnswer.answer = MaskedAnswer
    /\ \A kind \in TlsFactories :
          /\ PatternUnderMask(kind)
          /\ Len(HandshakeBytes(kind)) = 11
          /\ Len(HandshakeMask(kind)) = 11

\* ---------------------------------------------------------------------
\* ctp: Accepts of the FTP/SMTP response factory on the bytes of an input.
\* ---------------------------------------------------------------------

\* How many bytes follow the fourth byte of an input at most.
MaxResponseTail == 3

\* The bytes tried in each place: around '1'..'5', around '0'..'5', around
\* the digits, space and hyphen and another, and CR, LF and a letter.
FirstBytes == {48, 49, 53, 54}
SecondBytes == {47, 48, 53, 54}
ThirdBytes == {47, 48, 57, 58}
FourthBytes == {32, 45, 33}
TailBytes == {13, 10, 65}

\* accepts of the response factory on data
ctpResponseAcceptsBytes(data) ==
    IF Len(data) < ctpMinFtpCMDLengthBytes THEN Answer("NeedMoreData", 0)
    ELSE IF data[1] < 49 \/ data[1] > 53 \/ data[2] > 53
    THEN Answer("Reject", 0)
    ELSE IF data[4] # 32 /\ data[4] # 45 THEN Answer("Reject", 0)
    ELSE IF data[Len(data) - 1] # 13 \/ data[Len(data)] # 10
    THEN Answer("Reject", 0)
    ELSE Answer("Accept", 0)

\* Accepts of the response factory
ctpResponseFactoryAccepts(data, isEnd) ==
    EndOfStream(ctpResponseAcceptsBytes(data), Len(data), isEnd)

\* The inputs: the first bytes of a code, a separator and a tail.
CtpResponseInputs ==
    UNION {{SubSeq(<<b1, b2, b3, b4>> \o tail, 1, len) :
                len \in 0..(4 + Len(tail))} :
            b1 \in FirstBytes, b2 \in SecondBytes, b3 \in ThirdBytes,
            b4 \in FourthBytes,
            tail \in UNION {[1..n -> TailBytes] : n \in 0..MaxResponseTail}}

CtpInit ==
    /\ BaseIdle /\ ViewIdle /\ ReaderIdle /\ H2Idle /\ ReqIdle /\ TeeIdle /\ HttpIdle /\ TlsIdle /\ PipeIdle /\ SlabIdle /\ StreamIdle
    /\ tfKind = "ctpResponse"
    /\ tfInput \in CtpResponseInputs
    /\ tfIsEnd \in BOOLEAN
    /\ tfAnswer = NoResult

\* factory.Accepts(input, isEnd)
CtpAccepts ==
    /\ ~tfAnswer.done
    /\ tfAnswer' = [done |-> TRUE,
                    answer |-> ctpResponseFactoryAccepts(tfInput, tfIsEnd)]
    /\ UNCHANGED <<tfKind, tfInput, tfIsEnd>>
    /\ UNCHANGED <<baseVars, viewVars, readerVars, h2Vars, reqVars, teeVars, httpVars, tlsVars, pipeVars, slabVars, streamVars>>

CtpNext == CtpAccepts

CtpSpec == CtpInit /\ [][CtpNext]_vars

\* A three-digit code with first digit 1..5 and second digit 0..5, a space
\* or a hyphen, and CR LF at the end.
WellFormedResponse(data) ==
    /\ Len(data) >= 5
    /\ data[1] \in 49..53
    /\ data[2] \in 48..53
    /\ data[3] \in 48..57
    /\ data[4] \in {32, 45}
    /\ data[Len(data) - 1] = 13 /\ data[Len(data)] = 10

\* Every well-formed response is accepted.
WellFormedResponsesAccepted ==
    (tfAnswer.done /\ WellFormedResponse(tfInput)) =>
        tfAnswer.answer.decision = "Accept"

\* C32: the response recognizer accepts an input only when it has 5 bytes or
\* more, its first byte is in '1'..'5', its second in '0'..'5', its third a
\* digit, its fourth a space or a hyphen, and it ends with CR LF; no other
\* input of 5 bytes or more is accepted.
C32_ResponseCodeAccepted ==
    tfAnswer.done =>
        (tfAnswer.answer.decision = "Accept" <=> WellFormedResponse(tfInput))

\* ---------------------------------------------------------------------
\* MemViewReader: ReadUint16AndTruncate and ReadUint24AndTruncate.
\* ---------------------------------------------------------------------

\* Longest view read by the length-prefixed helpers.
MaxFieldViewLen == 4

\* The byte values of these views: lengths 0, 1 and 2 can be written, and a
\* non-zero high byte makes a length no view has.
FieldBytes == {0, 1, 2}

\* The n bytes r.Read copies from the cursor on, slab after slab.
BytesAt(buf, cur, n) ==
    SubSeq(Flat(SubSeq(buf, cur.rIndex + 1, Len(buf))),
           cur.rOffset + 1, cur.rOffset + n)

\* binary.BigEndian over the bytes of b
RECURSIVE BigEndian(_)
BigEndian(b) ==
    IF b = <<>> THEN 0
    ELSE 256 * BigEndian(SubSeq(b, 1, Len(b) - 1)) + b[Len(b)]

\* r.ReadUint16() for width 2, r.ReadUint24() for width 3: [err, value, cur]
ReadUint(buf, cur, width) ==
    LET r == Read(buf, cur, width) IN
    IF r.eof THEN [err |-> TRUE, value |-> 0, cur |-> r.cur]
    ELSE IF r.n # width THEN [err |-> TRUE, value |-> 0, cur |-> r.cur]
    ELSE [err |-> FALSE, value |-> BigEndian(BytesAt(buf, cur, width)),
          cur |-> r.cur]

\* r.Truncate(offset): [err, field], field being the bytes of the sub-view
\* the new reader is created on
Truncate(buf, cur, offset) ==
    LET endPos == cur.gOffset + offset IN
    IF offset < 0 \/ cur.gOffset + offset > ViewLength(buf)
    THEN [err |-> TRUE, field |-> <<>>]
    ELSE [err |-> FALSE, field |-> SubView(Flat(buf), cur.gOffset, endPos)]

\* Truncate that moves the reader past the field.
TruncateAndSeek(buf, cur, offset) ==
    LET t == Truncate(buf, cur, offset) IN
    IF t.err THEN [err |-> TRUE, field |-> <<>>, cur |-> cur]
    ELSE [err |-> FALSE, field |-> t.field,
          cur |-> SeekCurrent(buf, cur, offset).cur]

\* Truncate as called by the helpers: the reader stays where it is.
TruncateField(buf, cur, offset) ==
    LET t == Truncate(buf, cur, offset) IN
    [err |-> t.err, field |-> t.field, cur |-> cur]

\* r.ReadUint16AndTruncate() for width 2, r.ReadUint24AndTruncate() for
\* width 3: [err, length, field, cur]
ReadUintAndTruncate(buf, cur, width) ==
    LET l == ReadUint(buf, cur, width) IN
    IF l.err
    THEN [err |-> TRUE, length |-> 0, field |-> <<>>, cur |-> l.cur]
    ELSE LET t == TruncateField(buf, l.cur, l.value) IN
         [err |-> t.err, length |-> l.value, field |-> t.field,
          cur |-> t.cur]

\* A view of FieldBytes and a fresh reader on it.
FieldInit ==
    /\ BaseIdle /\ H2Idle /\ ReqIdle /\ TeeIdle /\ HttpIdle /\ TlsIdle /\ TlsfIdle /\ PipeIdle /\ SlabIdle /\ StreamIdle
    /\ \E n \in 0..MaxFieldViewLen :
           \E bytes \in [1..n -> FieldBytes] : mvBuf \in SplitsOf(bytes)
    /\ mvStart = 0
    /\ mvSep = <<>>
    /\ mvResult = NoResult
    /\ rIndex = CreateReader.rIndex
    /\ rOffset = CreateReader.rOffset
    /\ gOffset = CreateReader.gOffset
    /\ rdLast = [op |-> "none"]

\* r.ReadByte(), to put the reader anywhere in the view
FieldReadByte ==
    LET r == ReadByte(mvBuf, TheCursor) IN
    /\ ~r.eof
    /\ SetCursor(r.cur)
    /\ rdLast' = [op |-> "ReadByte"]
    /\ UNCHANGED <<baseVars, viewVars, h2Vars, reqVars, teeVars, httpVars, tlsVars, tlsfVars, pipeVars, slabVars, streamVars>>

FieldTruncateCall(width) ==
    \E r \in {ReadUintAndTruncate(mvBuf, TheCursor, width)} :
        /\ SetCursor(r.cur)
        /\ rdLast' = [op |-> "ReadUintAndTruncate", width |-> width,
                      from |-> gOffset, err |-> r.err, length |-> r.length,
                      field |-> r.field]
        /\ UNCHANGED <<baseVars, viewVars, h2Vars, reqVars, teeVars, httpVars, tlsVars, tlsfVars, pipeVars, slabVars, streamVars>>

FieldReadUint16AndTruncate == FieldTruncateCall(2)

FieldReadUint24AndTruncate == FieldTruncateCall(3)

FieldNext ==
    FieldReadByte \/ FieldReadUint16AndTruncate \/ FieldReadUint24AndTruncate

FieldSpec == FieldInit /\ [][FieldNext]_vars

Truncated == rdLast.op = "ReadUintAndTruncate"

\* The length written in the width bytes at the reader's place before the
\* call, when that many bytes were there.
LengthField ==
    BigEndian(SubSeq(Flat(mvBuf), rdLast.from + 1, rdLast.from + rdLast.width))

HasLengthField == rdLast.from + rdLast.width <= ViewLength(mvBuf)

\* The bytes after the length field.
Remaining == ViewLength(mvBuf) - (rdLast.from + rdLast.width)

\* The call fails exactly when the length field is not whole or fewer bytes
\* than it says remain.
FailsWhenShort ==
    Truncated =>
        (rdLast.err <=> (~HasLengthField \/ LengthField > Remaining))

\* A call that succeeds returns the length and a reader over exactly the
\* bytes after the length field.
FieldIsNextBytes ==
    (Truncated /\ ~rdLast.err) =>
        /\ rdLast.length = LengthField
        /\ rdLast.field = SubSeq(Flat(mvBuf), rdLast.from + rdLast.width + 1,
                                 rdLast.from + rdLast.width + rdLast.length)

\* C33: ReadUint16AndTruncate and ReadUint24AndTruncate return the length n
\* and a reader over exactly the next n bytes, and leave the parent reader
\* after the length field, before those n bytes; they fail when the length
\* field is not whole or fewer than n bytes remain.
C33_TruncateLeavesParentAtField ==
    /\ FailsWhenShort
    /\ FieldIsNextBytes
    /\ (Truncated /\ ~rdLast.err) => gOffset = rdLast.from + rdLast.width

C33_Witness ==
    /\ Truncated /\ ~rdLast.err
    /\ rdLast.width = 2 /\ rdLast.length = 2 /\ rdLast.from = 0
    /\ Len(rdLast.field) = 2
    /\ gOffset = 2

\* C33 as stated: the parent reader is left past the n bytes of the field.
C33_ParentPastField ==
    (Truncated /\ ~rdLast.err) =>
        gOffset = rdLast.from + rdLast.width + rdLast.length

\* ---------------------------------------------------------------------
\* MemViewReader on a view that grows: reads, seeks and Append interleaved.
\* ---------------------------------------------------------------------

\* Most bytes and most slabs of a view after its appends.
MaxGrownLen == 4
MaxGrownSlabs == 5
\* Most bytes and slabs appended at once.
MaxAppendLen == 2
MaxAppendSlabs == 2

\* dst.Append(src) that forgets the slabs of dst.
MemViewAppend_Replace(buf, src) == src

\* dst.Append(src): dst.buf = append(dst.buf, src.buf...)
MemViewAppend(buf, src) == buf \o src

\* The bytes after the first from bytes of a view grown to from + n bytes.
NewBytes(from, n) == [k \in 1..n |-> from + k]

\* mv.Append(src) on the view the reader was created on
GrowAppend ==
    \E n \in 0..MaxAppendLen, slabs \in 0..MaxAppendSlabs :
        /\ slabs > 0 \/ n = 0
        /\ ViewLength(mvBuf) + n <= MaxGrownLen
        /\ Len(mvBuf) + slabs <= MaxGrownSlabs
        /\ \E src \in (IF slabs = 0 THEN {<<>>}
                       ELSE SplitsInto(NewBytes(ViewLength(mvBuf), n), slabs)) :
               mvBuf' = MemViewAppend(mvBuf, src)
        /\ rdLast' = [op |-> "Append"]
        /\ UNCHANGED <<mvStart, mvSep, mvResult, rIndex, rOffset, gOffset>>
        /\ UNCHANGED <<baseVars, h2Vars, reqVars, teeVars, httpVars, tlsVars, tlsfVars, pipeVars, slabVars, streamVars>>

\* r.Read(out) with len(out) = n
GrowRead ==
    \E n \in 0..MaxGrownLen :
        \E r \in {Read(mvBuf, TheCursor, n)} :
            /\ SetCursor(r.cur)
            /\ rdLast' = [op |-> "Read", err |-> r.eof, n |-> r.n,
                          req |-> n, from |-> gOffset,
                          data |-> BytesAt(mvBuf, TheCursor, r.n)]
            /\ UNCHANGED <<baseVars, viewVars, h2Vars, reqVars, teeVars, httpVars, tlsVars, tlsfVars, pipeVars, slabVars, streamVars>>

\* r.ReadUint16(), r.ReadUint24(), r.ReadUint32()
GrowReadUint ==
    \E width \in {2, 3, 4} :
        \E r \in {ReadUint(mvBuf, TheCursor, width)} :
            /\ SetCursor(r.cur)
            /\ rdLast' = [op |-> "ReadUint", err |-> r.err, n |-> r.value,
                          req |-> width, from |-> gOffset]
            /\ UNCHANGED <<baseVars, viewVars, h2Vars, reqVars, teeVars, httpVars, tlsVars, tlsfVars, pipeVars, slabVars, streamVars>>

GrowNext ==
    \/ GrowAppend
    \/ GrowRead
    \/ GrowReadUint
    \/ ReaderReadByte
    \/ ReaderSeek

GrowSpec == ReaderInit /\ [][GrowNext]_vars

\* The sum of the lengths of the slabs before slab index.
SlabsBefore(buf, index) == Len(Flat(SubSeq(buf, 1, index)))

\* The reader's place is a place of the view, and its global offset is the
\* slabs before its slab plus its offset in the slab.
OffsetIsSlabSum ==
    /\ rIndex \in 0..Len(mvBuf)
    /\ rOffset >= 0
    /\ rIndex < Len(mvBuf) => rOffset <= Len(mvBuf[rIndex + 1])
    /\ rIndex = Len(mvBuf) => rOffset = 0
    /\ gOffset = SlabsBefore(mvBuf, rIndex) + rOffset

\* A read returns the bytes of the view from the reader's offset on, as many
\* as were asked for or as the view has, whichever slabs they are in, and
\* moves the reader past them; it reports the end only at the end.
ReadsWhatTheViewHolds ==
    rdLast.op = "Read" =>
        /\ rdLast.n = Min(rdLast.req, ViewLength(mvBuf) - rdLast.from)
        /\ rdLast.data = SubSeq(Flat(mvBuf), rdLast.from + 1,
                                rdLast.from + rdLast.n)
        /\ gOffset = rdLast.from + rdLast.n
        /\ rdLast.err => (rdLast.from = ViewLength(mvBuf) /\ rdLast.req > 0)

\* read_uN fails exactly when fewer than N bytes are left.
ReadUintWhatTheViewHolds ==
    rdLast.op = "ReadUint" =>
        /\ rdLast.err <=> rdLast.from + rdLast.req > ViewLength(mvBuf)
        /\ ~rdLast.err =>
               /\ gOffset = rdLast.from + rdLast.req
               /\ rdLast.n = BigEndian(SubSeq(Flat(mvBuf), rdLast.from + 1,
                                              rdLast.from + rdLast.req))

\* C34: after any reads, seeks and appends to the backing view the reader's
\* global offset is the sum of the lengths of the slabs before its slab index
\* plus its offset in the slab, and reads go on into slabs appended after the
\* reader was created.
C34_OffsetFollowsSlabs ==
    /\ OffsetIsSlabSum
    /\ ReadsWhatTheViewHolds
    /\ ReadUintWhatTheViewHolds

\* A read that began in a slab the view was created with and ended in a
\* slab appended later.
C34_Witness ==
    /\ rdLast.op = "Read"
    /\ Len(mvBuf) > NumSlabs
    /\ rdLast.from < SlabsBefore(mvBuf, NumSlabs)
    /\ rdLast.from > 0
    /\ gOffset > SlabsBefore(mvBuf, NumSlabs)
    /\ rdLast.n >= 2

\* ---------------------------------------------------------------------
\* tcpFlow: the parser state of a flow between deliveries.
\* ---------------------------------------------------------------------

\* No parser is active and nothing is held back for the selector.
NoParserEmptyBuffer ==
    /\ currentParser = NilParser
    /\ currentParserCtx = NilCtx
    /\ unusedAcceptBuf = <<>>

\* No parser is active and a prefix waits for more data.
NoParserRetainedPrefix ==
    /\ currentParser = NilParser
    /\ currentParserCtx = NilCtx
    /\ unusedAcceptBuf # <<>>

\* A parser is active, with the context of its first byte.
ParserActive ==
    /\ currentParser # NilParser
    /\ currentParserCtx # NilCtx
    /\ unusedAcceptBuf = <<>>

\* C35: between deliveries a flow is in exactly one of three states: no
\* parser and an empty partial buffer, no parser and a retained prefix, or a
\* parser active with its first-byte context; the parser and the context are
\* set together, and the retained buffer is empty while a parser is active.
C35_FlowParserState ==
    phase # "reenter" =>
        /\ NoParserEmptyBuffer \/ NoParserRetainedPrefix \/ ParserActive
        /\ ~(NoParserEmptyBuffer /\ NoParserRetainedPrefix)
        /\ ~(NoParserEmptyBuffer /\ ParserActive)
        /\ ~(NoParserRetainedPrefix /\ ParserActive)
        /\ (currentParser = NilParser) <=> (currentParserCtx = NilCtx)
        /\ currentParser # NilParser => unusedAcceptBuf = <<>>

\* A parser was created on a delivery that found a retained prefix, and is
\* still active after it.
C35_Witness ==
    /\ phase = "open"
    /\ ParserActive
    /\ last.op = "reassembled"
    /\ ~last.hadParser
    /\ last.bufBefore # <<>>
    /\ last.sel.decision = "Accept"

\* ---------------------------------------------------------------------
\* TrafficParser.Parse: sends on p.outchan and its close.
\* ---------------------------------------------------------------------

\* The dispatch goroutine has returned and has nothing left to send.
NothingToSend ==
    /\ dispPc = "done"
    /\ dispPending = <<>>

\* A step that sends no record: the channel gets no record and the log of
\* the records sent stays as it is.
NoSendStep ==
    /\ dispOut' <= dispOut
    /\ dispLog' = dispLog
    /\ dispOutClosed'

\* C36: no record is sent on the emission channel after it is closed: the
\* records of packet handling, of a flush tick and of the final flush are
\* all sent before the dispatch goroutine closes the channel, however packet
\* arrival, ticks and the close of the packet channel interleave.
C36_NoSendAfterClose ==
    /\ [](dispOutClosed => NothingToSend)
    /\ [][dispOutClosed => NoSendStep]_vars

\* The channel is closed with records of packets and of completed flows sent
\* before, some of them not yet received by the consumer.
C36_Witness ==
    /\ dispOutClosed
    /\ dispOut > 0
    /\ \E r \in dispLog : r.src = "packet"
    /\ \E r \in dispLog : r.src = "flush"

\* ---------------------------------------------------------------------
\* httpParser.Parse and the goroutine of newHTTPParser over the io.Pipe.
\* ---------------------------------------------------------------------

\* Calls of Parse on one parser.
MaxParseCalls == 3
\* Slabs of one input, and bytes of one slab.
MaxInputSlabs == 2
MaxSlabLen == 2
\* p.maxHttpLength, scaled to the inputs of the model.
MaxHttpLength == 3

PipeOthersIdle ==
    /\ BaseIdle /\ ViewIdle /\ ReaderIdle /\ H2Idle /\ ReqIdle /\ TeeIdle /\ HttpIdle /\ TlsIdle /\ TlsfIdle /\ SlabIdle /\ StreamIdle

\* The inputs of Parse: the lengths of the slabs of the view.
ParseInputs == UNION {[1..n -> 0..MaxSlabLen] : n \in 0..MaxInputSlabs}

RECURSIVE SumOf(_)
SumOf(slabs) == IF slabs = <<>> THEN 0 ELSE Head(slabs) + SumOf(Tail(slabs))

\* The errors the read side of the pipe is closed with.
ReaderErrors == {"httpPipeReaderDone", "httpPipeReaderError"}

\* Where the goroutine is after r.CloseWithError(err).
Closed(err) == IF err = "httpPipeReaderDone" THEN "closedDone" ELSE "closedError"

\* The goroutine that finishes without r.CloseWithError(err).
CloseWithError_None(err) == "open"

\* r.CloseWithError(err): the pipe is done, with err for the writer.
CloseWithError(err) == err

\* The deferred function of Parse on the error err of the pipe: with
\* httpPipeReaderDone the result is received from resultChan, every other
\* error is returned.
ParseDeferred(err) ==
    IF err = "httpPipeReaderDone" THEN "waitResult" ELSE "returned"

\* Where Parse goes after the empty write returned nil.
AfterEmptyWrite(isEnd, total) ==
    IF isEnd \/ total > MaxHttpLength THEN "waitClosed" ELSE "idle"

\* newHTTPParser: the pipe is made and the goroutine started.
PipeInit ==
    /\ PipeOthersIdle
    /\ ppW = "idle"
    /\ ppR = "read"
    /\ ppSlabs = <<>>
    /\ ppIsEnd = FALSE
    /\ ppTotal = 0
    /\ ppCalls = 0
    /\ ppDone = "open"
    /\ ppWClosed = FALSE
    /\ ppReadClosed = <<>>
    /\ ppLast = [outcome |-> "-"]

PipeRest ==
    UNCHANGED <<baseVars, viewVars, readerVars, h2Vars, reqVars, teeVars, httpVars, tlsVars, tlsfVars, slabVars, streamVars>>

\* Parse(input, isEnd) is called: p.totalBytesConsumed += input.Len(), and
\* io.Copy starts on the slabs of the input (MemViewReader.WriteTo); with no
\* slab the empty write is next.
ParseCall ==
    /\ ppW = "idle"
    /\ ppCalls < MaxParseCalls
    /\ \E input \in ParseInputs, isEnd \in BOOLEAN :
          /\ ppSlabs' = input \o <<0>>
          /\ ppIsEnd' = isEnd
          /\ ppTotal' = ppTotal + SumOf(input)
    /\ ppW' = "write"
    /\ ppCalls' = ppCalls + 1
    /\ ppLast' = [outcome |-> "-"]
    /\ UNCHANGED <<ppR, ppDone, ppWClosed, ppReadClosed>>
    /\ PipeRest

\* The write under way is the empty write after io.Copy.
InEmptyWrite == Len(ppSlabs) = 1

\* p.w.Write(b) meets r.Read of the goroutine: the reader takes nr bytes of
\* b; when none is left the write returns, and Parse goes on to its next
\* write, or after the empty write closes the writer or returns.
PipeTransfer ==
    /\ ppW = "write"
    /\ ppR = "read"
    /\ ppDone = "open"
    /\ \E nr \in (IF Head(ppSlabs) = 0 THEN {0} ELSE 1..Head(ppSlabs)) :
          IF nr < Head(ppSlabs)
          THEN /\ ppSlabs' = <<Head(ppSlabs) - nr>> \o Tail(ppSlabs)
               /\ UNCHANGED <<ppW, ppWClosed, ppLast>>
          ELSE /\ ppSlabs' = Tail(ppSlabs)
               /\ IF InEmptyWrite
                  THEN /\ ppW' = AfterEmptyWrite(ppIsEnd, ppTotal)
                       /\ ppWClosed' = (ppW' = "waitClosed")
                       /\ ppLast' = IF ppW' = "idle"
                                    THEN [outcome |-> "none"] ELSE ppLast
                  ELSE UNCHANGED <<ppW, ppWClosed, ppLast>>
    /\ ppR' = IF Head(ppSlabs) = 0 THEN "gotNone" ELSE "got"
    /\ UNCHANGED <<ppIsEnd, ppTotal, ppCalls, ppDone, ppReadClosed>>
    /\ PipeRest

\* p.w.Write on a pipe whose read side is closed returns the error it was
\* closed with; io.Copy stops, and the deferred function of Parse runs.
WriteFails ==
    /\ ppW = "write"
    /\ ppDone # "open"
    /\ ppW' = ParseDeferred(ppDone)
    /\ ppLast' = [outcome |-> IF ppW' = "returned" THEN "error" ELSE "-",
                  early |-> ~InEmptyWrite]
    /\ ppSlabs' = <<>>
    /\ UNCHANGED <<ppR, ppIsEnd, ppTotal, ppCalls, ppDone, ppWClosed,
                   ppReadClosed>>
    /\ PipeRest

\* r.Read after p.w.Close(): io.EOF.
ReadEOF ==
    /\ ppR = "read"
    /\ ppWClosed
    /\ ppR' = "eof"
    /\ UNCHANGED <<ppW, ppSlabs, ppIsEnd, ppTotal, ppCalls, ppDone, ppWClosed,
                   ppReadClosed, ppLast>>
    /\ PipeRest

\* The goroutine after a read: readSingleHTTPRequest (or Response) reads
\* again, or returns the message or an error, and the goroutine closes the
\* read side with it. After io.EOF it cannot read again; after a read of no
\* bytes (the empty write of Parse) it has nothing new to make a message of,
\* and reads again or fails (bufio gives up after too many empty reads).
ReaderDecides ==
    /\ ppR \in {"got", "gotNone", "eof"}
    /\ \/ /\ ppR \in {"got", "gotNone"}
          /\ ppR' = "read"
          /\ UNCHANGED ppDone
       \/ \E err \in ReaderErrors :
             /\ ppR = "gotNone" => err = "httpPipeReaderError"
             /\ ppDone' = CloseWithError(err)
             /\ ppR' = Closed(err)
    /\ UNCHANGED <<ppW, ppSlabs, ppIsEnd, ppTotal, ppCalls, ppWClosed,
                   ppReadClosed, ppLast>>
    /\ PipeRest

\* readClosed <- err, a channel of capacity 1; then with an error
\* body.Release() and return, with a message the send on resultChan.
ReaderSendsClosed ==
    /\ \E err \in ReaderErrors :
          /\ ppR = Closed(err)
          /\ Len(ppReadClosed) < 1
          /\ ppReadClosed' = Append(ppReadClosed, err)
          /\ ppR' = IF err = "httpPipeReaderDone" THEN "sendResult" ELSE "exit"
    /\ UNCHANGED <<ppW, ppSlabs, ppIsEnd, ppTotal, ppCalls, ppDone, ppWClosed,
                   ppLast>>
    /\ PipeRest

\* err = <-p.readClosed after p.w.Close(), and the deferred function.
ParseReceivesClosed ==
    /\ ppW = "waitClosed"
    /\ ppReadClosed # <<>>
    /\ ppW' = ParseDeferred(Head(ppReadClosed))
    /\ ppReadClosed' = Tail(ppReadClosed)
    /\ ppLast' = [outcome |-> IF ppW' = "returned" THEN "error" ELSE "-",
                  early |-> FALSE]
    /\ UNCHANGED <<ppR, ppSlabs, ppIsEnd, ppTotal, ppCalls, ppDone, ppWClosed>>
    /\ PipeRest

\* result = <-p.resultChan meets resultChan <- c: Parse returns the message
\* and the goroutine returns.
ParseReceivesResult ==
    /\ ppW = "waitResult"
    /\ ppR = "sendResult"
    /\ ppW' = "returned"
    /\ ppR' = "exit"
    /\ ppLast' = [ppLast EXCEPT !.outcome = "result"]
    /\ UNCHANGED <<ppSlabs, ppIsEnd, ppTotal, ppCalls, ppDone, ppWClosed,
                   ppReadClosed>>
    /\ PipeRest

PipeNext ==
    \/ ParseCall
    \/ PipeTransfer
    \/ WriteFails
    \/ ReadEOF
    \/ ReaderDecides
    \/ ReaderSendsClosed
    \/ ParseReceivesClosed
    \/ ParseReceivesResult

\* The two goroutines run whenever they can; when Parse is called is up to
\* the flow.
PipeFairness ==
    /\ WF_vars(PipeTransfer)
    /\ WF_vars(WriteFails)
    /\ WF_vars(ReadEOF)
    /\ WF_vars(ReaderDecides)
    /\ WF_vars(ReaderSendsClosed)
    /\ WF_vars(ParseReceivesClosed)
    /\ WF_vars(ParseReceivesResult)

PipeSpec == PipeInit /\ [][PipeNext]_vars /\ PipeFairness

\* Parse is running.
InParse == ppW \in {"write", "waitClosed", "waitResult"}

\* C37: every call of Parse returns: the writes into the pipe and the reader
\* goroutine never wait for each other forever, however the bytes are split
\* over calls and slabs, with isEnd true or false, when the reader finishes
\* or fails before all the input is written, and when the input exceeds the
\* maximum HTTP length; a goroutine that has a message hands it over.
C37_ParseReturns ==
    /\ InParse ~> ~InParse
    /\ (ppR = "sendResult") ~> (ppR = "exit")

\* Parse returned the message of a reader that finished before all the
\* input of the call was written, with more than the maximum length fed.
C37_Witness ==
    /\ ppW = "returned"
    /\ ppLast.outcome = "result"
    /\ ppLast.early
    /\ ppTotal > MaxHttpLength
    /\ ppCalls > 1

\* ---------------------------------------------------------------------
\* tcpFlow: the re-entries of reassembledWithIgnore at the end of a stream.
\* ---------------------------------------------------------------------

\* The bytes an invocation with ignoreCount ignore works on.
BytesToProcess(sg, ignore) == Len(sg) - ignore

\* A step that ends in a pending re-entry: the re-entry is on the same
\* ScatterGather, skips more bytes than the invocation that asked for it,
\* and still has a byte to work on.
ReentryShrinks ==
    phase' = "reenter" =>
        /\ sgBytes' = last'.sg
        /\ phase = "reenter" => sgBytes' = sgBytes
        /\ last'.isEnd
        /\ BytesToProcess(sgBytes', ignoreCount')
              < BytesToProcess(last'.sg, last'.ignore)
        /\ BytesToProcess(sgBytes', ignoreCount') = Len(last'.unused)
        /\ BytesToProcess(sgBytes', ignoreCount') > 0

SlabPoolChunks == 2
SlabChunkSize == 2
NumSlabBuffers == 2
MaxSlabWrite == 1

\* The n bytes handed to a Write or held by the reader of a ReadFrom: no
\* byte of a payload is 0.
SlabPayload(n) == [i \in 1..n |-> 1]

\* A chunk: the slice data, and id to tell its backing array from the
\* others.
Slab(id, data) == [id |-> id, data |-> data]

\* getChunk that hands the chunk out as it came back.
Cleared_Not(slab) == slab

\* for i := range result { result[i] = 0 }
Cleared(slab) == [slab EXCEPT !.data = ZeroChunk(Len(slab.data))]

\* bufferPool.getChunk on the slabs of the pool; taken collects the slabs
\* received from the channel during one call on a buffer, handed the
\* slabs getChunk returned.
slabGetChunk(pool) ==
    IF pool.chunks = <<>> THEN [nil |-> TRUE, pool |-> pool]
    ELSE [nil |-> FALSE, result |-> Cleared(Head(pool.chunks)),
          pool |-> [pool EXCEPT !.chunks = Tail(pool.chunks),
                                !.taken = Append(@, Head(pool.chunks)),
                                !.handed = Append(@, Cleared(Head(pool.chunks)))]]

\* bufferPool.release on the slabs of the pool
RECURSIVE slabRelease(_, _)
slabRelease(pool, chunks) ==
    IF chunks = <<>> THEN pool
    ELSE IF Len(pool.chunks) < pool.cap
    THEN slabRelease([pool EXCEPT !.chunks = Append(@, Head(chunks))],
                     Tail(chunks))
    ELSE pool

\* buffer.grow(n) on slabs: [buf, pool, chunkIdx, offset, availableBytes]
RECURSIVE slabObtain(_, _, _, _)
slabObtain(buf, pool, chunksNeeded, chunksObtained) ==
    IF chunksObtained >= chunksNeeded
    THEN [buf |-> buf, pool |-> pool, chunksObtained |-> chunksObtained]
    ELSE LET g == slabGetChunk(pool) IN
         IF g.nil
         THEN [buf |-> buf, pool |-> pool, chunksObtained |-> chunksObtained]
         ELSE slabObtain([buf EXCEPT !.chunks = Append(@, g.result)], g.pool,
                         chunksNeeded, chunksObtained + 1)

slabGrow(buf, pool, n) ==
    LET has == Len(buf.chunks) > 0
        chunkIdx == IF has THEN Len(buf.chunks) - 1 ELSE 0
        offset == IF has THEN buf.writeOffset ELSE 0
        availableBytes == IF has THEN pool.chunkSize_bytes - buf.writeOffset ELSE 0
        spaceNeeded == n - availableBytes
    IN  IF spaceNeeded <= 0
        THEN [buf |-> buf, pool |-> pool, chunkIdx |-> chunkIdx,
              offset |-> offset, availableBytes |-> availableBytes]
        ELSE LET chunksNeeded == (spaceNeeded + pool.chunkSize_bytes - 1)
                                     \div pool.chunkSize_bytes
                 full == offset = pool.chunkSize_bytes
                 o == slabObtain(buf, pool, chunksNeeded, 0)
             IN  [buf |-> o.buf, pool |-> o.pool,
                  chunkIdx |-> IF full THEN chunkIdx + 1 ELSE chunkIdx,
                  offset |-> IF full THEN 0 ELSE offset,
                  availableBytes |->
                      availableBytes + o.chunksObtained * pool.chunkSize_bytes]

\* The copy loop of Write on slabs.
RECURSIVE slabWriteLoop(_, _, _, _, _)
slabWriteLoop(buf, chunkIdx, offset, p, totalBytesWritten) ==
    LET chunk == buf.chunks[chunkIdx + 1].data
        bytesWritten == Min(Len(chunk) - offset, Len(p) - totalBytesWritten)
        src == SubSeq(p, totalBytesWritten + 1, totalBytesWritten + bytesWritten)
        buf1 == [buf EXCEPT !.chunks[chunkIdx + 1].data =
                                CopyInto(chunk, offset, src)]
    IN  IF chunkIdx + 1 = Len(buf.chunks)
        THEN [buf1 EXCEPT !.writeOffset = offset + bytesWritten]
        ELSE slabWriteLoop(buf1, chunkIdx + 1, 0, p,
                           totalBytesWritten + bytesWritten)

\* buffer.Write(p) on slabs: [buf, pool]
slabWrite(buf, pool, p) ==
    IF Len(p) = 0 THEN [buf |-> buf, pool |-> pool]
    ELSE LET g == slabGrow(buf, pool, Len(p)) IN
         IF g.availableBytes = 0 THEN [buf |-> g.buf, pool |-> g.pool]
         ELSE [buf |-> slabWriteLoop(g.buf, g.chunkIdx, g.offset, p, 0),
               pool |-> g.pool]

\* The deferred function of ReadFrom on slabs.
slabReadFromCleanup(buf, pool) ==
    LET numChunks == Len(buf.chunks) IN
    IF numChunks > 0 /\ buf.writeOffset = 0
    THEN [buf |-> [buf EXCEPT !.chunks = SubSeq(buf.chunks, 1, numChunks - 1),
                              !.writeOffset = pool.chunkSize_bytes],
          pool |-> slabRelease(pool, <<buf.chunks[numChunks]>>)]
    ELSE [buf |-> buf, pool |-> pool]

\* The loop of buffer.ReadFrom(r) on slabs; data is what r still holds.
RECURSIVE slabReadLoop(_, _, _, _)
slabReadLoop(buf, pool, data, kind) ==
    LET needSpace == Len(buf.chunks) = 0
                        \/ buf.writeOffset = pool.chunkSize_bytes
        g == slabGrow(buf, pool, pool.chunkSize_bytes)
    IN  IF needSpace /\ g.availableBytes = 0
        THEN [buf |-> g.buf, pool |-> g.pool]
        ELSE LET buf1 == IF needSpace THEN [g.buf EXCEPT !.writeOffset = 0]
                         ELSE buf
                 pool1 == IF needSpace THEN g.pool ELSE pool
                 last1 == Len(buf1.chunks)
                 bytesCopied == Min(pool.chunkSize_bytes - buf1.writeOffset,
                                    Len(data))
                 rerr == ReadError(kind, Len(data), bytesCopied)
                 buf2 == [buf1 EXCEPT
                            !.chunks[last1].data =
                                CopyInto(@, buf1.writeOffset,
                                         SubSeq(data, 1, bytesCopied)),
                            !.writeOffset = buf1.writeOffset + bytesCopied]
             IN  IF rerr # "nil"
                 THEN [buf |-> buf2, pool |-> pool1]
                 ELSE slabReadLoop(buf2, pool1,
                                   SubSeq(data, bytesCopied + 1, Len(data)),
                                   kind)

\* buffer.ReadFrom(r) on slabs: [buf, pool]
slabReadFrom(buf, pool, data, kind) ==
    LET r == slabReadLoop(buf, pool, data, kind)
    IN  slabReadFromCleanup(r.buf, r.pool)

\* buffer.Release on slabs: [buf, pool]
slabBufRelease(buf, pool) ==
    [buf |-> [buf EXCEPT !.chunks = <<>>, !.readOffset = 0],
     pool |-> slabRelease(pool, buf.chunks)]

\* MakeBufferPool and NewBuffer, NumSlabBuffers times.
SlabInit ==
    /\ BaseIdle /\ ViewIdle /\ ReaderIdle /\ H2Idle /\ ReqIdle /\ TeeIdle /\ HttpIdle /\ TlsIdle /\ TlsfIdle /\ PipeIdle /\ StreamIdle
    /\ slPool = [chunks |-> [k \in 1..SlabPoolChunks |->
                                Slab(k, ZeroChunk(SlabChunkSize))],
                 cap |-> SlabPoolChunks,
                 chunkSize_bytes |-> SlabChunkSize,
                 taken |-> <<>>,
                 handed |-> <<>>]
    /\ slBufs = [b \in 1..NumSlabBuffers |-> newBuffer]
    /\ slLast = [taken |-> <<>>, handed |-> <<>>]

\* A call on buffer b has returned r.
SlabCalled(b, r) ==
    /\ slBufs' = [slBufs EXCEPT ![b] = r.buf]
    /\ slPool' = [r.pool EXCEPT !.taken = <<>>, !.handed = <<>>]
    /\ slLast' = [taken |-> r.pool.taken, handed |-> r.pool.handed]
    /\ UNCHANGED <<baseVars, viewVars, readerVars, h2Vars, reqVars, teeVars, httpVars, tlsVars, tlsfVars, pipeVars, streamVars>>

SlabWrite(b) ==
    \E n \in 0..MaxSlabWrite :
        \E r \in {slabWrite(slBufs[b], slPool, SlabPayload(n))} :
            SlabCalled(b, r)

\* The readers that leave ReadFrom by different ways: a failing reader
\* leaves the buffer and the pool as a MemViewReader does, the error apart.
SlabReaderKinds == {"memview", "eofWithData"}

SlabReadFrom(b) ==
    \E n \in 0..MaxSlabWrite, kind \in SlabReaderKinds :
        \E r \in {slabReadFrom(slBufs[b], slPool, SlabPayload(n), kind)} :
            SlabCalled(b, r)

SlabRelease(b) ==
    \E r \in {slabBufRelease(slBufs[b], slPool)} :
        SlabCalled(b, r)

SlabWrites == \E b \in 1..NumSlabBuffers : SlabWrite(b)
SlabReadFroms == \E b \in 1..NumSlabBuffers : SlabReadFrom(b)
SlabReleases == \E b \in 1..NumSlabBuffers : SlabRelease(b)

SlabNext == SlabWrites \/ SlabReadFroms \/ SlabReleases

SlabSpec == SlabInit /\ [][SlabNext]_vars

\* The slabs the buffers own, buffer after buffer.
RECURSIVE SlabsOwnedUpTo(_)
SlabsOwnedUpTo(b) ==
    IF b = 0 THEN <<>> ELSE SlabsOwnedUpTo(b - 1) \o slBufs[b].chunks

SlabsOwned == SlabsOwnedUpTo(Len(slBufs))

\* Every slab there is: the free ones of the pool, then the owned ones.
SlabsKnown == slPool.chunks \o SlabsOwned

SlabsConserved == Len(SlabsKnown) <= slPool.cap

SlabsExclusive ==
    \A i, j \in DOMAIN SlabsKnown :
        SlabsKnown[i].id = SlabsKnown[j].id => i = j

SlabsHandedZero ==
    \A i \in DOMAIN slLast.handed :
        slLast.handed[i].data = ZeroChunk(slPool.chunkSize_bytes)

\* What a buffer has not written of its last slab is still zero.
SlabsUnwrittenZero ==
    \A b \in DOMAIN slBufs :
        LET n == Len(slBufs[b].chunks) IN
        n > 0 =>
            \A i \in 1..slPool.chunkSize_bytes :
                i > slBufs[b].writeOffset => slBufs[b].chunks[n].data[i] = 0

\* C39: however Write, ReadFrom and Release on several buffers of one
\* pool interleave, the free slabs of the pool and the slabs the buffers
\* own are never more than the pool's chunk count, no slab is owned by two
\* buffers or both free and owned, and every slab getChunk handed out is
\* all zero (so is what a buffer has not yet written of its last slab).
C39_SlabsConserved ==
    slPool.cap > 0 =>
        /\ SlabsConserved
        /\ SlabsExclusive
        /\ SlabsHandedZero
        /\ SlabsUnwrittenZero

\* Both buffers own slabs, and the last call was handed a slab that an
\* earlier owner had written and released.
C39_Witness ==
    /\ slPool.cap > 0
    /\ \A b \in DOMAIN slBufs : slBufs[b].chunks # <<>>
    /\ \E i \in DOMAIN slLast.taken :
            /\ slLast.taken[i].data # ZeroChunk(slPool.chunkSize_bytes)
            /\ slLast.handed[i].id = slLast.taken[i].id

\* ---------------------------------------------------------------------
\* tcpStream: Accept, ReassembledSG and ReassemblyComplete of one stream.
\* ---------------------------------------------------------------------

\* The connection IDs uuid.New may return, the TCP ports of a packet, and
\* the number of calls of the assembler on the stream.
NumStreamIDs == 2
NumPorts == 2
MaxStreamCalls == 3
\* Longest payload of a packet, and the most records a flow sends in one
\* call.
MaxPayloadLen == 1
MaxFlowRecords == 1

\* reassembly.TCPFlowDirection and its Reverse
Dirs == {"ClientToServer", "ServerToClient"}
DirReverse(dir) ==
    IF dir = "ClientToServer" THEN "ServerToClient" ELSE "ClientToServer"

\* gopacket.Flow as <<src, dst>>, and Flow.Reverse
FlowReverse(flow) == <<flow[2], flow[1]>>

\* The network flows a stream is made for.
NetFlows == {<<1, 2>>, <<2, 1>>}

\* The TCP layers handed to Accept.
TcpLayers ==
    [SrcPort : 1..NumPorts, DstPort : 1..NumPorts, payloadLen : 0..MaxPayloadLen]

\* newTCPStream: flows is nil, the empty map.
newTCPStream(bidiID, netFlow) ==
    [bidiID |-> bidiID, netFlow |-> netFlow, flows |-> {}]

\* newTCPFlow; made tells the object from the others newTCPFlow made.
newTCPFlow(bidiID, nf, tf, made) ==
    [netFlow |-> nf, tcpFlow |-> tf, bidiID |-> bidiID, made |-> made]

\* The map literal of Accept: dir: s1, dir.Reverse(): s2.
NewFlows(c, tcp, dir, made) ==
    LET tf == <<tcp.SrcPort, tcp.DstPort>>
        s1 == newTCPFlow(c.bidiID, c.netFlow, tf, made + 1)
        s2 == newTCPFlow(c.bidiID, FlowReverse(c.netFlow), FlowReverse(tf),
                         made + 2)
    IN  [flows |-> {[dir |-> dir, flow |-> s1],
                    [dir |-> DirReverse(dir), flow |-> s2]},
         made |-> made + 2]

\* Accept, were the flows made for every packet.
AcceptFlows_Always(c, tcp, dir, made) == NewFlows(c, tcp, dir, made)

\* if c.flows == nil { ... } of Accept: the flows of the stream and the
\* number of tcpFlow objects made so far.
AcceptFlows(c, tcp, dir, made) ==
    IF c.flows = {} THEN NewFlows(c, tcp, dir, made)
    ELSE [flows |-> c.flows, made |-> made]

\* c.flows[dir]
FlowAt(flows, dir) == (CHOOSE e \in flows : e.dir = dir).flow

\* The metadata record Accept sends for a packet without payload: its
\* connection ID and the kind of its content.
TcpMetadata(c, tcp) ==
    [LayerType |-> "TCP", ConnectionID |-> c.bidiID,
     Content |-> "TCPPacketMetadata"]

\* tcpFlow.toPNT: a record sent by a flow, its connection ID and the kind
\* of its content.
FlowRecord(f) ==
    [LayerType |-> "TCP", ConnectionID |-> f.bidiID, Content |-> "ParsedContent"]

FlowRecordsOf(f, n) == [k \in 1..n |-> FlowRecord(f)]

\* What the assembler's call left.
StreamCall(op, dir, had, start, ret) ==
    [op |-> op, dir |-> dir, had |-> had, start |-> start, ret |-> ret]

\* Everything but the stream stays as it was.
StreamRest ==
    UNCHANGED <<baseVars, viewVars, readerVars, h2Vars, reqVars, teeVars, httpVars, tlsVars, tlsfVars, pipeVars, slabVars>>

StreamInit ==
    /\ BaseIdle /\ ViewIdle /\ ReaderIdle /\ H2Idle /\ ReqIdle /\ TeeIdle /\ HttpIdle /\ TlsIdle /\ TlsfIdle /\ PipeIdle /\ SlabIdle
    /\ \E bidiID \in 1..NumStreamIDs, netFlow \in NetFlows :
          stStream = newTCPStream(bidiID, netFlow)
    /\ stMade = 0
    /\ stOut = <<>>
    /\ stLast = StreamCall("none", "none", FALSE, FALSE, FALSE)
    /\ stCalls = 0
    /\ stIgnored = 0
    /\ stDone = FALSE

\* tcpStream.Accept(tcp, ci, dir, nextSeq, start, ac); start is *start as
\* the assembler passed it. outChan has a receiver.
StreamAccept ==
    /\ ~stDone
    /\ stCalls < MaxStreamCalls
    /\ \E tcp \in TcpLayers, dir \in Dirs, start \in BOOLEAN :
         \E r \in {AcceptFlows(stStream, tcp, dir, stMade)} :
            /\ stStream' = [stStream EXCEPT !.flows = r.flows]
            /\ stMade' = r.made
            /\ stOut' = IF tcp.payloadLen = 0
                        THEN Append(stOut, TcpMetadata(stStream, tcp))
                        ELSE stOut
            /\ stLast' = StreamCall("Accept", dir, stStream.flows # {}, TRUE, TRUE)
    /\ stCalls' = stCalls + 1
    /\ UNCHANGED <<stIgnored, stDone>>
    /\ StreamRest

\* tcpStream.ReassembledSG(sg, ac); dir is what sg.Info() returns, n the
\* number of records the flow's reassembled sends.
StreamReassembledSG ==
    /\ ~stDone
    /\ stCalls < MaxStreamCalls
    /\ \E dir \in Dirs, n \in 0..MaxFlowRecords :
          /\ IF stStream.flows = {}
             THEN /\ stOut' = stOut
                  /\ stIgnored' = stIgnored + 1
             ELSE /\ stOut' = stOut \o FlowRecordsOf(FlowAt(stStream.flows, dir), n)
                  /\ stIgnored' = stIgnored
          /\ stLast' = StreamCall("ReassembledSG", dir, stStream.flows # {},
                                 FALSE, FALSE)
    /\ stCalls' = stCalls + 1
    /\ UNCHANGED <<stStream, stMade, stDone>>
    /\ StreamRest

\* tcpStream.ReassemblyComplete(ac): every flow is completed, in the
\* order the range over the map takes them, and may send what it held; the
\* stream leaves the pool.
StreamReassemblyComplete ==
    /\ ~stDone
    /\ \E dir \in Dirs, n1, n2 \in 0..MaxFlowRecords :
          stOut' = IF stStream.flows = {} THEN stOut
                   ELSE stOut
                        \o FlowRecordsOf(FlowAt(stStream.flows, dir), n1)
                        \o FlowRecordsOf(FlowAt(stStream.flows, DirReverse(dir)), n2)
    /\ stLast' = StreamCall("ReassemblyComplete", "none", stStream.flows # {},
                            FALSE, TRUE)
    /\ stDone' = TRUE
    /\ UNCHANGED <<stStream, stMade, stCalls, stIgnored>>
    /\ StreamRest

StreamNext ==
    \/ StreamAccept
    \/ StreamReassembledSG
    \/ StreamReassemblyComplete

StreamSpec == StreamInit /\ [][StreamNext]_vars

\* Accept returns true and leaves *start true.
AcceptsAndStarts == stLast.op = "Accept" => stLast.ret /\ stLast.start

\* The flows, once made, are one for each direction, made by two calls of
\* newTCPFlow, and carry the connection ID of the stream.
FlowsOfTheStream ==
    IF stStream.flows = {} THEN stMade = 0
    ELSE /\ stMade = 2
         /\ Cardinality(stStream.flows) = 2
         /\ {e.dir : e \in stStream.flows} = Dirs
         /\ \A e \in stStream.flows : e.flow.bidiID = stStream.bidiID

\* The first Accept makes the flow of the packet's direction from the
\* packet's ports and the stream's network flow, and the flow of the other
\* direction from their reverses.
FirstAcceptMakesFlows ==
    (stStream.flows = {} /\ stLast'.op = "Accept") =>
        /\ stStream'.flows # {}
        /\ \E s1, s2 \in stStream'.flows :
              /\ s1.dir = stLast'.dir
              /\ s2.dir = DirReverse(stLast'.dir)
              /\ s1.flow.netFlow = stStream.netFlow
              /\ s2.flow.netFlow = FlowReverse(stStream.netFlow)
              /\ s2.flow.tcpFlow = FlowReverse(s1.flow.tcpFlow)
              /\ s1.flow.made # s2.flow.made

\* No later call makes or replaces a flow.
FlowsKept == stStream.flows # {} => stStream'.flows = stStream.flows

\* A delivery that finds no flows sends nothing and makes no flow.
EarlyDeliveryIgnored ==
    (stStream.flows = {} /\ stLast'.op = "ReassembledSG") =>
        /\ stOut' = stOut
        /\ stStream' = stStream
        /\ stMade' = stMade

\* C40: Accept returns true for every packet and sets *start; the first
\* Accept makes the two flows of the connection, for the packet's direction
\* and its reverse, both with the connection ID of the stream, and no
\* later call makes them again; a reassembled delivery on a stream without
\* flows sends nothing.
C40_AcceptMakesFlowsOnce ==
    /\ [](AcceptsAndStarts /\ FlowsOfTheStream)
    /\ [][FirstAcceptMakesFlows /\ FlowsKept /\ EarlyDeliveryIgnored]_vars

\* A delivery was ignored before the first packet was accepted, and a later
\* Accept found the flows made.
C40_Witness ==
    /\ stIgnored > 0
    /\ stLast.op = "Accept"
    /\ stLast.had
    /\ stMade = 2

====
